---- MODULE Spec2Model ----
(***************************************************************************)
(* GmailPy: the email payload extraction pipeline.                         *)
(*                                                                         *)
(* Python strings are sequences of one-character strings.  A Python value  *)
(* that may be missing (a dict key) is a record with a has* flag.  A call  *)
(* is recorded in three variables: pc (which function was applied), arg    *)
(* (its arguments) and ret (what it returned or raised).                   *)
(***************************************************************************)
EXTENDS Integers, Sequences, FiniteSets, TLC

VARIABLES pc, arg, ret

vars == <<pc, arg, ret>>

(***************************************************************************)
(* Bounds of the model.                                                    *)
(***************************************************************************)
\* symbols (fragments and element separators) making up a links argument
MaxLinkSyms == 5

\* entries of a header list
MaxHeaders == 3

\* symbols (fragments and part separators) making up the text parts of a message
MaxTextSyms == 5

\* parts of a message made of part shapes
MaxParts == 2

(***************************************************************************)
(* Characters and generic sequence helpers.                                *)
(***************************************************************************)
\* characters matched by \s and stripped by str.strip(); NBSP and ENQUAD name
\* the code points U+00A0 and U+2000
Whitespace == {" ", "\n", "\r", "\t", "NBSP", "ENQUAD"}

\* characters matched by \w
WordChars == {"a", "b", "c", "d", "e", "f", "g", "h", "i", "j", "k", "l", "m",
              "n", "o", "p", "q", "r", "s", "t", "u", "v", "w", "x", "y", "z",
              "A", "B", "E", "G", "H", "I", "J", "M", "N", "O", "P", "R", "S", "T",
              "W", "X"}

\* characters matched by neither \w nor \s; ZWNJ and ZWSP name the code
\* points U+200C and U+200B
Punctuation == {":", "/", ".", "@", "<", ">", "-", "!", ",", ";", "=", "ZWNJ", "ZWSP"}

Alphabet == WordChars \cup Whitespace \cup Punctuation

NonSpace == Alphabet \ Whitespace

RECURSIVE Flatten(_)
Flatten(ss) == IF ss = <<>> THEN <<>> ELSE Head(ss) \o Flatten(Tail(ss))

SeqsUpTo(S, n) == UNION {[1..k -> S] : k \in 0..n}

Range(f) == {f[i] : i \in DOMAIN f}

SetMin(S) == CHOOSE x \in S : \A y \in S : x <= y

\* every enumeration of the finite set S as a list without repetition
Orderings(S) ==
  {f \in [1..Cardinality(S) -> S] : \A i, j \in 1..Cardinality(S) : f[i] = f[j] => i = j}

StartsAt(s, i, p) ==
  /\ i >= 1
  /\ i + Len(p) - 1 <= Len(s)
  /\ \A k \in 1..Len(p) : s[i + k - 1] = p[k]

\* number of consecutive characters of s from position i that lie in Class
RECURSIVE RunLen(_, _, _)
RunLen(s, i, Class) ==
  IF i > Len(s) \/ s[i] \notin Class THEN 0 ELSE 1 + RunLen(s, i + 1, Class)

(***************************************************************************)
(* compiled_regexes.py: each pattern is the length of its match at         *)
(* position i of s (0: no match there).                                    *)
(***************************************************************************)
HttpScheme == <<"h", "t", "t", "p", ":", "/", "/">>
HttpsScheme == <<"h", "t", "t", "p", "s", ":", "/", "/">>
WwwPrefix == <<"w", "w", "w", ".">>

\* https?://
SchemeLen(s, i) ==
  IF StartsAt(s, i, HttpsScheme) THEN Len(HttpsScheme)
  ELSE IF StartsAt(s, i, HttpScheme) THEN Len(HttpScheme)
  ELSE 0

\* https?://[^/]+
BASIC_LINK(s, i) ==
  LET n == SchemeLen(s, i)
      r == RunLen(s, i + n, Alphabet \ {"/"})
  IN IF n > 0 /\ r > 0 THEN n + r ELSE 0

\* https?://[^\s]+
DETAILED_LINK(s, i) ==
  LET n == SchemeLen(s, i)
      r == RunLen(s, i + n, NonSpace)
  IN IF n > 0 /\ r > 0 THEN n + r ELSE 0

\* [\w\.-]+@[\w\.-]+
EMAIL_ADDRESS(s, i) ==
  LET cls == WordChars \cup {".", "-"}
      a == RunLen(s, i, cls)
      b == RunLen(s, i + a + 1, cls)
  IN IF a > 0 /\ i + a <= Len(s) /\ s[i + a] = "@" /\ b > 0 THEN a + 1 + b ELSE 0

\* (?:https?://|www\.)\S+
HTTP_HTTPS_URL(s, i) ==
  LET n == IF SchemeLen(s, i) > 0 THEN SchemeLen(s, i)
           ELSE IF StartsAt(s, i, WwwPrefix) THEN Len(WwwPrefix) ELSE 0
      r == RunLen(s, i + n, NonSpace)
  IN IF n > 0 /\ r > 0 THEN n + r ELSE 0

MatchLen(pat, s, i) ==
  CASE pat = "BASIC_LINK" -> BASIC_LINK(s, i)
    [] pat = "DETAILED_LINK" -> DETAILED_LINK(s, i)
    [] pat = "EMAIL_ADDRESS" -> EMAIL_ADDRESS(s, i)
    [] pat = "HTTP_HTTPS_URL" -> HTTP_HTTPS_URL(s, i)

\* re.findall: the non-overlapping matches, scanning left to right from i
RECURSIVE FindAllFrom(_, _, _)
FindAllFrom(pat, s, i) ==
  IF i > Len(s) THEN <<>>
  ELSE LET m == MatchLen(pat, s, i)
       IN IF m > 0
          THEN <<SubSeq(s, i, i + m - 1)>> \o FindAllFrom(pat, s, i + m)
          ELSE FindAllFrom(pat, s, i + 1)

findall(pat, s) == FindAllFrom(pat, s, 1)

\* re.sub(pat, "", s): s with every match removed
RECURSIVE SubFrom(_, _, _)
SubFrom(pat, s, i) ==
  IF i > Len(s) THEN <<>>
  ELSE LET m == MatchLen(pat, s, i)
       IN IF m > 0 THEN SubFrom(pat, s, i + m)
          ELSE <<s[i]>> \o SubFrom(pat, s, i + 1)

sub(pat, s) == SubFrom(pat, s, 1)

(***************************************************************************)
(* email_sections.py: links_detailed, links_basic.                        *)
(*                                                                         *)
(* An argument is [isList, items]; an item is [isStr, s].  A result is     *)
(* [exc, val]: exc is "none" or the exception raised.  list(set) has no    *)
(* defined order, so a function returns the set of its possible results.   *)
(***************************************************************************)
Returned(v) == [exc |-> "none", val |-> v]
Raised(e) == [exc |-> e, val |-> <<>>]

\* the matches of pat over all the strings of items, in encounter order
RECURSIVE AllMatches(_, _)
AllMatches(pat, items) ==
  IF items = <<>> THEN <<>>
  ELSE findall(pat, Head(items).s) \o AllMatches(pat, Tail(items))

\* unique = set(); for link in links: unique.update(pattern.findall(link))
UniqueMatches(pat, items) == Range(AllMatches(pat, items))

links_detailed_keep_duplicates(links) ==
  IF ~links.isList THEN {Raised("TypeError")}
  ELSE IF \E k \in DOMAIN links.items : ~links.items[k].isStr THEN {Raised("TypeError")}
  ELSE {Returned(AllMatches("DETAILED_LINK", links.items))}

links_detailed_unchecked(links) ==
  IF ~links.isList THEN {Raised("TypeError")}
  ELSE {Returned(l) : l \in Orderings(UniqueMatches("DETAILED_LINK",
          SelectSeq(links.items, LAMBDA it : it.isStr)))}

links_detailed(links) ==
  IF ~links.isList THEN {Raised("TypeError")}
  ELSE IF \E k \in DOMAIN links.items : ~links.items[k].isStr THEN {Raised("TypeError")}
  ELSE {Returned(l) : l \in Orderings(UniqueMatches("DETAILED_LINK", links.items))}

links_basic(links) ==
  IF ~links.isList THEN {Raised("TypeError")}
  ELSE IF \E k \in DOMAIN links.items : ~links.items[k].isStr THEN {Raised("TypeError")}
  ELSE {Returned(l) : l \in Orderings(UniqueMatches("BASIC_LINK", links.items))}

(***************************************************************************)
(* Inputs of the link extractors: a sequence of at most MaxLinkSyms        *)
(* symbols; "," separates the elements of the list, "#" makes the element  *)
(* it occurs in a non-string, every other symbol is a fragment of text.    *)
(***************************************************************************)
LinkFragments ==
  [H |-> HttpScheme, S |-> HttpsScheme, B |-> <<"B">>, slash |-> <<"/">>, sp |-> <<" ">>]

LinkSymbols == {"H", "S", "B", "slash", "sp", ",", "#"}

RECURSIVE SplitAt(_, _)
SplitAt(q, sep) ==
  IF q = <<>> THEN <<>>
  ELSE LET k == CHOOSE j \in 1..(Len(q) + 1) :
                  /\ \A m \in 1..(j - 1) : q[m] # sep
                  /\ (j <= Len(q) => q[j] = sep)
       IN <<SubSeq(q, 1, k - 1)>> \o SplitAt(SubSeq(q, k + 1, Len(q)), sep)

TextOf(frags, seg) == Flatten([k \in DOMAIN seg |-> frags[seg[k]]])

LinkItem(seg) ==
  IF \E k \in DOMAIN seg : seg[k] = "#"
  THEN [isStr |-> FALSE, s |-> <<>>]
  ELSE [isStr |-> TRUE, s |-> TextOf(LinkFragments, seg)]

LinkList(q) ==
  LET segs == SplitAt(q, ",")
  IN [isList |-> TRUE, items |-> [k \in DOMAIN segs |-> LinkItem(segs[k])]]

NotAList == [isList |-> FALSE, items |-> <<>>]

LinkArgs == {NotAList} \cup {LinkList(q) : q \in SeqsUpTo(LinkSymbols, MaxLinkSyms)}

NoRet == Raised("pending")

InitLinks ==
  /\ pc = "input"
  /\ arg \in LinkArgs
  /\ ret = NoRet

CallLinksDetailed ==
  /\ pc = "input"
  /\ pc' = "links_detailed"
  /\ ret' \in links_detailed(arg)
  /\ UNCHANGED arg

CallLinksBasic ==
  /\ pc = "input"
  /\ pc' = "links_basic"
  /\ ret' \in links_basic(arg)
  /\ UNCHANGED arg

NextLinks == CallLinksDetailed \/ CallLinksBasic

SpecLinks == InitLinks /\ [][NextLinks]_vars

(***************************************************************************)
(* Properties of the link extractors.                                      *)
(***************************************************************************)
AllStrings(links) == links.isList /\ \A k \in DOMAIN links.items : links.items[k].isStr

NoDuplicates(l) == \A i, j \in DOMAIN l : l[i] = l[j] => i = j

Contains(s, c) == \E k \in DOMAIN s : s[k] = c

\* the last positions of the whitespace-delimited tokens of s
TokenEnds(s) ==
  {b \in DOMAIN s : s[b] \notin Whitespace /\ (b = Len(s) \/ s[b + 1] \in Whitespace)}

\* the positions of the token ending at b where http:// or https:// begins
\* and at least one more character of the token follows
UrlStarts(s, b) ==
  {i \in 1..b :
     /\ \A k \in i..b : s[k] \notin Whitespace
     /\ \/ StartsAt(s, i, HttpScheme) /\ i + Len(HttpScheme) <= b
        \/ StartsAt(s, i, HttpsScheme) /\ i + Len(HttpsScheme) <= b}

\* per token, the text from the first http(s):// of the token to its end
TokenUrls(s) ==
  {SubSeq(s, SetMin(UrlStarts(s, b)), b) : b \in {e \in TokenEnds(s) : UrlStarts(s, e) # {}}}

ExpectedDetailed(links) == UNION {TokenUrls(links.items[k].s) : k \in DOMAIN links.items}

\* C5 (as claimed): every value links_basic returns is an http(s):// prefix
\* that stops before the first following "/" and holds no text that follows
\* the URL in the input: no "/" after the scheme, no whitespace, no repeats.
C5_BasicReturnsDomainPrefixes ==
  (pc = "links_basic" /\ ret.exc = "none") =>
    /\ NoDuplicates(ret.val)
    /\ \A k \in DOMAIN ret.val :
         LET v == ret.val[k]
             n == SchemeLen(v, 1)
         IN /\ n > 0
            /\ Len(v) > n
            /\ ~Contains(SubSeq(v, n + 1, Len(v)), "/")
            /\ \A j \in DOMAIN v : v[j] \notin Whitespace

C6_WitnessDuplicate ==
  /\ pc = "links_detailed"
  /\ AllStrings(arg)
  /\ Len(AllMatches("DETAILED_LINK", arg.items)) = 2
  /\ Len(ret.val) = 1

\* C7: links_detailed and links_basic raise TypeError, and return nothing,
\* when the argument is not a list or is a list with a non-string element.
C7_TypeMismatchRaises ==
  (pc \in {"links_detailed", "links_basic"} /\ ~AllStrings(arg)) => ret = Raised("TypeError")

\* a list with a URL string and a non-string element, given to links_detailed
C7_Witness ==
  /\ pc = "links_detailed"
  /\ arg.isList
  /\ \E k \in DOMAIN arg.items : ~arg.items[k].isStr
  /\ \E k \in DOMAIN arg.items :
       arg.items[k].isStr /\ findall("DETAILED_LINK", arg.items[k].s) # <<>>
  /\ ret = Raised("TypeError")

C7_WitnessNotAList == pc = "links_basic" /\ ~arg.isList /\ ret = Raised("TypeError")

(***************************************************************************)
(* Python values of the message template: None, a str, a list of str.      *)
(***************************************************************************)
PyNone == [t |-> "NoneType", v |-> <<>>]
PyStr(s) == [t |-> "str", v |-> s]
PyList(l) == [t |-> "list", v |-> l]

\* exceptions.py: non_empty_string (the exception raised, "none" if none)
non_empty_string(string) ==
  IF string.t # "str" THEN "TypeError"
  ELSE IF string.v = <<>> THEN "ValueError"
  ELSE "none"

\* exceptions.py: non_empty_dict, for a dict given by its set of keys
non_empty_dict(isDict, keys) ==
  IF ~isDict THEN "TypeError"
  ELSE IF keys = {} THEN "ValueError"
  ELSE "none"

(***************************************************************************)
(* utils.py: extract_email_address.                                        *)
(***************************************************************************)
extract_email_address_whole_value(email_headers) ==
  IF non_empty_string(email_headers) # "none" THEN Raised(non_empty_string(email_headers))
  ELSE Returned(<<email_headers.v>>)

extract_email_address(email_headers) ==
  IF non_empty_string(email_headers) # "none" THEN Raised(non_empty_string(email_headers))
  ELSE Returned(findall("EMAIL_ADDRESS", email_headers.v))

(***************************************************************************)
(* gmail.py: the message template of __extract_custom_email, a dict given  *)
(* by its set of keys and the value of every key it can hold.              *)
(***************************************************************************)
TemplateKeys == {"from", "to", "subject", "message", "links"}

NoLinks == [number |-> 0, href |-> <<>>]

DefaultTemplate ==
  [keys |-> TemplateKeys, from |-> PyNone, to |-> PyNone, subject |-> PyNone,
   message |-> <<>>, links |-> NoLinks, headres |-> <<>>]

\* the dict {}
EmptyDict == [DefaultTemplate EXCEPT !.keys = {}]

(***************************************************************************)
(* email_sections.py: email_basic_information.                             *)
(*                                                                         *)
(* A header entry is [hasName, name, hasValue, value].  The result is      *)
(* [exc, key, tmpl]: the exception raised ("none" if none), the key a      *)
(* KeyError names ("" otherwise) and the template, which the function      *)
(* updates in place, as the call leaves it.                                *)
(***************************************************************************)
\* the KeyError of a subscript with a key the dict does not hold
MissingKey(key) == [exc |-> "KeyError", key |-> key, val |-> <<>>]

BasicResult(exc, key, tmpl) == [exc |-> exc, key |-> key, tmpl |-> tmpl]

\* [j["value"] for j in email_data if j["name"] == "Subject"]
RECURSIVE SubjectValues(_)
SubjectValues(email_data) ==
  IF email_data = <<>> THEN Returned(<<>>)
  ELSE LET j == Head(email_data)
           rest == SubjectValues(Tail(email_data))
       IN IF ~j.hasName THEN MissingKey("name")
          ELSE IF j.name # "Subject" THEN rest
          ELSE IF ~j.hasValue THEN MissingKey("value")
          ELSE IF rest.exc # "none" THEN rest
          ELSE Returned(<<j.value>> \o rest.val)

\* the body of the try block, from entry k on
RECURSIVE BasicInformationFrom(_, _, _)
BasicInformationFrom(email_data, k, tmpl) ==
  IF k > Len(email_data) THEN BasicResult("none", "", tmpl)
  ELSE
    LET values == email_data[k]
        addr == extract_email_address(PyStr(values.value))
        subj == SubjectValues(email_data)
    IN IF ~values.hasName THEN BasicResult("KeyError", "name", tmpl)
       ELSE IF values.name = "From"
       THEN IF ~values.hasValue THEN BasicResult("KeyError", "value", tmpl)
            ELSE IF addr.exc # "none" THEN BasicResult(addr.exc, "", tmpl)
            ELSE IF subj.exc # "none"
                 THEN BasicResult(subj.exc, subj.key, [tmpl EXCEPT !.from = PyList(addr.val)])
            ELSE BasicInformationFrom(email_data, k + 1,
                   [tmpl EXCEPT !.from = PyList(addr.val), !.subject = PyList(subj.val)])
       ELSE IF values.name = "To"
       THEN IF ~values.hasValue THEN BasicResult("KeyError", "value", tmpl)
            ELSE IF addr.exc # "none" THEN BasicResult(addr.exc, "", tmpl)
            ELSE BasicInformationFrom(email_data, k + 1, [tmpl EXCEPT !.to = PyList(addr.val)])
       ELSE BasicInformationFrom(email_data, k + 1, tmpl)

ReraiseBasic_as_KeyError(r) ==
  IF r.exc = "none" THEN r ELSE [r EXCEPT !.exc = "KeyError"]

\* except KeyError: raise KeyError(f"...: {e}"), a message that names the
\* key; except Exception: raise Exception
ReraiseBasic(r) ==
  IF r.exc \in {"none", "KeyError"} THEN r ELSE [r EXCEPT !.exc = "Exception"]

email_basic_information_to_sets_from(email_data, message_template) ==
  ReraiseBasic(BasicInformationFrom(
    [k \in DOMAIN email_data |->
       IF email_data[k].hasName /\ email_data[k].name = "To"
       THEN [email_data[k] EXCEPT !.name = "From"] ELSE email_data[k]],
    1, message_template))

email_basic_information(email_data, message_template) ==
  ReraiseBasic(BasicInformationFrom(email_data, 1, message_template))

(***************************************************************************)
(* Inputs of email_basic_information: at most MaxHeaders entries.          *)
(***************************************************************************)
JaneValue ==
  <<"J", "a", "n", "e", " ", "<", "j", "a", "n", "e", "@", "x", ".", "c", "o", "m", ">">>
JaneAddress == <<"j", "a", "n", "e", "@", "x", ".", "c", "o", "m">>
HiValue == <<"H", "i">>
ReHiValue == <<"R", "e", ":", " ", "H", "i">>
TwoAddressValue == <<"a", "@", "b", ",", " ", "c", "@", "d", ".", "e">>

HeaderNames == {"From", "To", "Subject", "Date"}
HeaderValues == {<<>>, JaneValue, HiValue, ReHiValue, TwoAddressValue}

\* From, To and Subject entries with every value, a Date entry with one
\* value, entries without a value and one without a name
HeaderEntries ==
  [hasName : {TRUE}, name : HeaderNames \ {"Date"}, hasValue : {TRUE}, value : HeaderValues]
    \cup [hasName : {TRUE}, name : {"Date"}, hasValue : {TRUE}, value : {HiValue}]
    \cup [hasName : {TRUE}, name : HeaderNames, hasValue : {FALSE}, value : {<<>>}]
    \cup [hasName : {FALSE}, name : {"Date"}, hasValue : {TRUE}, value : {HiValue}]

HeaderLists == SeqsUpTo(HeaderEntries, MaxHeaders)

InitHeaders ==
  /\ pc = "input"
  /\ arg \in HeaderLists
  /\ ret = BasicResult("pending", "", DefaultTemplate)

CallBasicInformation ==
  /\ pc = "input"
  /\ pc' = "email_basic_information"
  /\ ret' = email_basic_information(arg, DefaultTemplate)
  /\ UNCHANGED arg

NextHeaders == CallBasicInformation

SpecHeaders == InitHeaders /\ [][NextHeaders]_vars

(***************************************************************************)
(* Properties of email_basic_information.                                  *)
(***************************************************************************)
HasHeader(hs, n) == \E k \in DOMAIN hs : hs[k].hasName /\ hs[k].name = n

\* the value of the last entry of hs named n
LastValue(hs, n) ==
  LET k == CHOOSE j \in DOMAIN hs :
             /\ hs[j].hasName /\ hs[j].name = n
             /\ \A m \in DOMAIN hs : (hs[m].hasName /\ hs[m].name = n) => m <= j
  IN hs[k].value

\* the addresses each header value of the model holds, written out by hand
AddressesIn(value) ==
  CASE value = JaneValue -> <<JaneAddress>>
    [] value = TwoAddressValue -> <<(<<"a", "@", "b">>), (<<"c", "@", "d", ".", "e">>)>>
    [] OTHER -> <<>>

\* the values of the entries named Subject, in the order of the list
SubjectsInOrder(hs) ==
  LET subj == SelectSeq(hs, LAMBDA e : e.hasName /\ e.name = "Subject")
  IN [k \in DOMAIN subj |-> subj[k].value]

WellFormedHeaders(hs) ==
  \A k \in DOMAIN hs :
    /\ hs[k].hasName
    /\ hs[k].hasValue
    /\ hs[k].name \in {"From", "To"} => hs[k].value # <<>>

Resolved == pc = "email_basic_information" /\ ret.exc = "none"

\* C8 (as claimed): with a From entry, `from` is the address as a string,
\* "jane@x.com" for the value "Jane <jane@x.com>"; likewise `to`.
C8_FromIsAddressString ==
  (Resolved /\ HasHeader(arg, "From")) =>
    /\ ret.tmpl.from.t = "str"
    /\ LastValue(arg, "From") = JaneValue => ret.tmpl.from.v = JaneAddress

\* C8 (amended): when resolve returns, `from` (resp. `to`) is the list of all
\* the addresses found in the value of the last From (resp. To) entry, the
\* display name left out: ["jane@x.com"] for "Jane <jane@x.com>".
C8_FromIsAddressList ==
  Resolved =>
    /\ HasHeader(arg, "From") => ret.tmpl.from = PyList(AddressesIn(LastValue(arg, "From")))
    /\ HasHeader(arg, "To") => ret.tmpl.to = PyList(AddressesIn(LastValue(arg, "To")))

C8_Witness ==
  /\ Resolved
  /\ HasHeader(arg, "From")
  /\ LastValue(arg, "From") = JaneValue
  /\ ret.tmpl.from = PyList(<<JaneAddress>>)
  /\ HasHeader(arg, "To")
  /\ Len(ret.tmpl.to.v) = 2

\* C9 (as claimed): for every header list, with or without a From entry,
\* `subject` is the sequence of the values of all Subject entries, in order.
C9_SubjectCollectsAllInOrder ==
  (Resolved /\ HasHeader(arg, "Subject")) =>
    /\ ret.tmpl.subject.t = "list"
    /\ ret.tmpl.subject.v = SubjectsInOrder(arg)

\* C10: without a From entry `from` stays unset, without a To entry `to`
\* stays unset, and the absence makes no call on well-formed entries fail.
C10_AbsentFromToStayUnset ==
  pc = "email_basic_information" =>
    /\ ~HasHeader(arg, "From") => ret.tmpl.from = PyNone
    /\ ~HasHeader(arg, "To") => ret.tmpl.to = PyNone
    /\ (WellFormedHeaders(arg) /\ (~HasHeader(arg, "From") \/ ~HasHeader(arg, "To")))
         => ret.exc = "none"

C10_Witness ==
  /\ Resolved
  /\ ~HasHeader(arg, "From")
  /\ HasHeader(arg, "To")
  /\ HasHeader(arg, "Subject")
  /\ ret.tmpl.from = PyNone
  /\ ret.tmpl.to.t = "list"

C10_WitnessNeither ==
  /\ Resolved
  /\ Len(arg) = MaxHeaders
  /\ ~HasHeader(arg, "From")
  /\ ~HasHeader(arg, "To")
  /\ ret.tmpl.from = PyNone
  /\ ret.tmpl.to = PyNone

BothKeys(hs) == \A k \in DOMAIN hs : hs[k].hasName /\ hs[k].hasValue

EmptyAddressValue(hs) ==
  \E k \in DOMAIN hs :
    hs[k].hasName /\ hs[k].name \in {"From", "To"} /\ hs[k].hasValue /\ hs[k].value = <<>>

\* C11 (as claimed): resolve fails only if some entry lacks `name` or
\* `value`: on every header list whose entries all carry both keys, with
\* string values, it returns a result.
C11_FailsOnlyOnMissingKey ==
  (pc = "email_basic_information" /\ BothKeys(arg)) => ret.exc = "none"

\* C11 (amended): resolve raises KeyError only if some entry lacks `name` or
\* `value`; when all entries carry both keys it returns a result exactly when
\* no From or To entry has the empty string as its value, and otherwise
\* raises the generic Exception.
C11_FailsOnlyOnMissingKeyOrEmptyAddress ==
  pc = "email_basic_information" =>
    /\ ret.exc = "KeyError" => ~BothKeys(arg)
    /\ BothKeys(arg) =>
         /\ ret.exc = (IF EmptyAddressValue(arg) THEN "Exception" ELSE "none")
         /\ WellFormedHeaders(arg) <=> ~EmptyAddressValue(arg)

C11_Witness ==
  /\ pc = "email_basic_information"
  /\ BothKeys(arg)
  /\ EmptyAddressValue(arg)
  /\ HasHeader(arg, "Subject")
  /\ ret.exc = "Exception"

C11_WitnessMissingKey ==
  /\ pc = "email_basic_information"
  /\ ~BothKeys(arg)
  /\ ret.exc = "KeyError"

C11_WitnessReturns ==
  /\ Resolved
  /\ BothKeys(arg)
  /\ Len(arg) = MaxHeaders
  /\ \E k \in DOMAIN arg : arg[k].name = "Subject" /\ arg[k].value = <<>>

(***************************************************************************)
(* utils.py: remove_unicode, clean_text.                                   *)
(***************************************************************************)
Keep(s, Class) == SelectSeq(s, LAMBDA c : c \in Class)

\* the code points U+200C, U+200B and U+00A0, named
ZeroWidthAndNbsp == {"ZWNJ", "ZWSP", "NBSP"}

\* re.sub('[U+200C U+200B U+00A0]+', '', data), then re.sub of every
\* character that is not \w, \s or in U+00C0..U+017F (a range that holds no
\* character of the model)
remove_unicode(data) ==
  Keep(SelectSeq(data, LAMBDA c : c \notin ZeroWidthAndNbsp), WordChars \cup Whitespace)

NewlineChars == {"\n", "\r"}

\* re.sub(r'(\r\n|\n|\r){2,}', '\n', text): a run of two or more newline
\* characters always splits into two or more of the alternatives
RECURSIVE CollapseNewlinesFrom(_, _)
CollapseNewlinesFrom(s, i) ==
  IF i > Len(s) THEN <<>>
  ELSE LET r == RunLen(s, i, NewlineChars)
       IN IF r >= 2 THEN <<"\n">> \o CollapseNewlinesFrom(s, i + r)
          ELSE <<s[i]>> \o CollapseNewlinesFrom(s, i + 1)

\* str.strip()
strip(s) ==
  LET idx == {k \in DOMAIN s : s[k] \notin Whitespace}
  IN IF idx = {} THEN <<>>
     ELSE SubSeq(s, CHOOSE a \in idx : \A b \in idx : a <= b,
                    CHOOSE a \in idx : \A b \in idx : a >= b)

\* the code points of U+2000..U+200F, U+2028, U+2029, U+202A..U+202F that the
\* model names
InvisibleChars == {"ZWNJ", "ZWSP", "ENQUAD"}

clean_text(text) ==
  IF text = <<>> THEN text
  ELSE strip(SelectSeq(CollapseNewlinesFrom(text, 1), LAMBDA c : c \notin InvisibleChars))

(***************************************************************************)
(* email_sections.py: email_message_from_partial.                          *)
(*                                                                         *)
(* A message is [keys, payload]; a payload is [hasHeaders, headers,        *)
(* hasParts, parts]; a part is [hasMime, mimeType, hasBody, hasData,       *)
(* data], and data is the base64 text given by what decoding it yields:    *)
(* [enc, text], enc one of "ok", "bad_base64", "bad_utf8".                 *)
(***************************************************************************)
\* BeautifulSoup(chunk, "html.parser").get_text(): the text outside tags
RECURSIVE GetTextFrom(_, _)
GetTextFrom(s, i) ==
  IF i > Len(s) THEN <<>>
  ELSE LET closing == {j \in (i + 1)..Len(s) : s[j] = ">"}
       IN IF s[i] = "<" /\ i < Len(s) /\ s[i + 1] \in WordChars \cup {"/"} /\ closing # {}
          THEN GetTextFrom(s, SetMin(closing) + 1)
          ELSE <<s[i]>> \o GetTextFrom(s, i + 1)

get_text(chunk) == GetTextFrom(chunk, 1)

\* base64.urlsafe_b64decode(data).decode("utf-8"): the exception it raises.
\* The decoder drops the characters outside its alphabet and raises
\* binascii.Error for wrong padding only ("bad_base64"); decode raises
\* UnicodeDecodeError for bytes that are not UTF-8 ("bad_utf8")
DecodeError(data) ==
  CASE data.enc = "bad_base64" -> "binascii.Error"
    [] data.enc = "bad_utf8" -> "UnicodeDecodeError"
    [] OTHER -> "none"

TextMimeTypes == {"text/plain", "text/html"}

\* the result of the walker is [exc, key, rec, links]: the exception raised
\* ("none" if none), the key a KeyError names, the record returned or, when
\* the call raises, the template as the call leaves it, and the links
WalkResult(exc, key, rec, links) == [exc |-> exc, key |-> key, rec |-> rec, links |-> links]

\* the loop as a recursion over the tree of parts: after a part, the parts
\* listed under its own `parts`
RECURSIVE WalkParts_recursive(_, _, _, _)
WalkParts_recursive(parts, k, tmpl, links) ==
  IF k > Len(parts) THEN WalkResult("none", "", tmpl, links)
  ELSE
    LET part == parts[k]
        chunk == part.data.text
        message == sub("HTTP_HTTPS_URL", get_text(chunk))
        own ==
          IF ~part.hasMime THEN WalkResult("none", "", tmpl, links)
          ELSE IF part.mimeType \notin TextMimeTypes THEN WalkResult("none", "", tmpl, links)
          ELSE IF ~part.hasBody THEN WalkResult("KeyError", "body", tmpl, links)
          ELSE IF ~part.hasData THEN WalkResult("KeyError", "data", tmpl, links)
          ELSE IF DecodeError(part.data) # "none"
          THEN WalkResult(DecodeError(part.data), "", tmpl, links)
          ELSE WalkResult("none", "",
                          [tmpl EXCEPT !.message = @ \o clean_text(message)],
                          links \o findall("HTTP_HTTPS_URL", chunk))
        nested ==
          IF own.exc = "none" /\ "parts" \in DOMAIN part
          THEN WalkParts_recursive(part.parts, 1, own.rec, own.links)
          ELSE own
    IN IF nested.exc # "none" THEN nested
       ELSE WalkParts_recursive(parts, k + 1, nested.rec, nested.links)

\* the loop without the cleaning of each part's text
RECURSIVE WalkParts_appends_raw_text(_, _, _, _)
WalkParts_appends_raw_text(parts, k, tmpl, links) ==
  IF k > Len(parts) THEN WalkResult("none", "", tmpl, links)
  ELSE
    LET part == parts[k]
        chunk == part.data.text
        message == sub("HTTP_HTTPS_URL", get_text(chunk))
    IN IF ~part.hasMime THEN WalkParts_appends_raw_text(parts, k + 1, tmpl, links)
       ELSE IF part.mimeType \notin TextMimeTypes
       THEN WalkParts_appends_raw_text(parts, k + 1, tmpl, links)
       ELSE IF ~part.hasBody THEN WalkResult("KeyError", "body", tmpl, links)
       ELSE IF ~part.hasData THEN WalkResult("KeyError", "data", tmpl, links)
       ELSE IF DecodeError(part.data) # "none"
       THEN WalkResult(DecodeError(part.data), "", tmpl, links)
       ELSE WalkParts_appends_raw_text(parts, k + 1,
                      [tmpl EXCEPT !.message = @ \o message],
                      links \o findall("HTTP_HTTPS_URL", chunk))

\* the loop without the test of the declared type
RECURSIVE WalkParts_reads_every_type(_, _, _, _)
WalkParts_reads_every_type(parts, k, tmpl, links) ==
  IF k > Len(parts) THEN WalkResult("none", "", tmpl, links)
  ELSE
    LET part == parts[k]
        chunk == part.data.text
        message == sub("HTTP_HTTPS_URL", get_text(chunk))
    IN IF ~part.hasMime THEN WalkParts_reads_every_type(parts, k + 1, tmpl, links)
       ELSE IF ~part.hasBody THEN WalkResult("KeyError", "body", tmpl, links)
       ELSE IF ~part.hasData THEN WalkResult("KeyError", "data", tmpl, links)
       ELSE IF DecodeError(part.data) # "none"
       THEN WalkResult(DecodeError(part.data), "", tmpl, links)
       ELSE WalkParts_reads_every_type(parts, k + 1,
                      [tmpl EXCEPT !.message = @ \o clean_text(message)],
                      links \o findall("HTTP_HTTPS_URL", chunk))

\* the loop over message["payload"]["parts"], from part k on; a KeyError of
\* part["body"]["data"] is raised again with a message that names the key
RECURSIVE WalkParts(_, _, _, _)
WalkParts(parts, k, tmpl, links) ==
  IF k > Len(parts) THEN WalkResult("none", "", tmpl, links)
  ELSE
    LET part == parts[k]
        chunk == part.data.text
        message == sub("HTTP_HTTPS_URL", get_text(chunk))
    IN IF ~part.hasMime THEN WalkParts(parts, k + 1, tmpl, links)
       ELSE IF part.mimeType \notin TextMimeTypes THEN WalkParts(parts, k + 1, tmpl, links)
       ELSE IF ~part.hasBody THEN WalkResult("KeyError", "body", tmpl, links)
       ELSE IF ~part.hasData THEN WalkResult("KeyError", "data", tmpl, links)
       ELSE IF DecodeError(part.data) # "none"
       THEN WalkResult(DecodeError(part.data), "", tmpl, links)
       ELSE WalkParts(parts, k + 1,
                      [tmpl EXCEPT !.message = @ \o clean_text(message)],
                      links \o findall("HTTP_HTTPS_URL", chunk))

email_message_from_partial_requires_payload(message, message_template) ==
  IF non_empty_dict(TRUE, message.keys) # "none"
  THEN WalkResult(non_empty_dict(TRUE, message.keys), "", message_template, <<>>)
  ELSE IF "payload" \notin message.keys
  THEN WalkResult("KeyError", "payload", message_template, <<>>)
  ELSE IF ~message.payload.hasParts
  THEN WalkResult("KeyError", "parts", message_template, <<>>)
  ELSE WalkParts(message.payload.parts, 1, message_template, <<>>)

email_message_from_partial_wraps_errors(message, message_template) ==
  IF non_empty_dict(TRUE, message.keys) # "none"
  THEN WalkResult(non_empty_dict(TRUE, message.keys), "", message_template, <<>>)
  ELSE IF "payload" \notin message.keys \/ ~message.payload.hasParts
  THEN WalkResult("none", "", EmptyDict, <<>>)
  ELSE LET r == WalkParts(message.payload.parts, 1, message_template, <<>>)
       IN IF r.exc \in {"none", "KeyError"} THEN r ELSE [r EXCEPT !.exc = "Exception"]

email_message_from_partial(message, message_template) ==
  IF non_empty_dict(TRUE, message.keys) # "none"
  THEN WalkResult(non_empty_dict(TRUE, message.keys), "", message_template, <<>>)
  ELSE IF "payload" \notin message.keys
  THEN WalkResult("none", "", EmptyDict, <<>>)
  ELSE IF ~message.payload.hasParts
  THEN WalkResult("none", "", EmptyDict, <<>>)
  ELSE WalkParts(message.payload.parts, 1, message_template, <<>>)

(***************************************************************************)
(* email_enumerators.py: LinksType, by the value of each member.           *)
(***************************************************************************)
LinksType == [NONE |-> "None", BASIC |-> "links_basic", DETAILED |-> "links_detailed"]

LinksTypeValues == {LinksType.NONE, LinksType.BASIC, LinksType.DETAILED}

(***************************************************************************)
(* email_sections.py: add_links.  The result is [exc, tmpl, method]:       *)
(* method names the extractor that was called ("none" if none was).        *)
(***************************************************************************)
\* getattr(sys.modules[__name__], link_type, None), when it is callable and
\* takes (links, logger); "none" otherwise
ModuleMethod(link_type) ==
  IF link_type \in {"links_basic", "links_detailed"} THEN link_type ELSE "none"

CallMethod(method, links) ==
  IF method = "links_basic" THEN links_basic(links) ELSE links_detailed(links)

AsLinksArg(links) == [isList |-> TRUE, items |-> [k \in DOMAIN links |-> [isStr |-> TRUE, s |-> links[k]]]]

add_links_detailed_for_none(links, link_type, message_template) ==
  LET method == IF link_type = "links_basic" THEN "links_basic" ELSE "links_detailed"
  IN {[exc |-> IF r.exc = "none" THEN "none" ELSE "Exception",
       tmpl |-> IF r.exc = "none"
                THEN [message_template EXCEPT !.links = [number |-> Len(r.val), href |-> r.val]]
                ELSE message_template,
       method |-> method] : r \in CallMethod(method, AsLinksArg(links))}

add_links(links, link_type, message_template) ==
  LET method == ModuleMethod(link_type)
  IN IF link_type = ""  \* non_empty_string(link_type): ValueError, re-raised
     THEN {[exc |-> "Exception", tmpl |-> message_template, method |-> "none"]}
     ELSE IF method = "none"
     THEN {[exc |-> "none", tmpl |-> message_template, method |-> "none"]}
     ELSE {[exc |-> IF r.exc = "none" THEN "none" ELSE "Exception",
            tmpl |-> IF r.exc = "none"
                     THEN [message_template EXCEPT !.links = [number |-> Len(r.val), href |-> r.val]]
                     ELSE message_template,
            method |-> method] : r \in CallMethod(method, AsLinksArg(links))}

(***************************************************************************)
(* gmail.py: GmailService.__extract_custom_email.  The result is           *)
(* [exc, cause, key, val, method]: the exception that reaches the caller   *)
(* ("none" if none), the exception the handler caught and the key it       *)
(* names, the dict returned, and the extractor add_links called.           *)
(***************************************************************************)
Reraise_all_generic(exc) == "GmailSetupError"

\* except KeyError: raise GmailPayloadError(f"{e}");
\* except Exception: raise GmailService(f"{e}"), and building a GmailService
\* from a str raises GmailSetupError in __setup_verification
Reraise(exc) == IF exc = "KeyError" THEN "GmailPayloadError" ELSE "GmailSetupError"

Failure_returns_template(exc, key) ==
  [exc |-> "none", cause |-> "none", key |-> "", val |-> DefaultTemplate, method |-> "none"]

Failure(exc, key) ==
  [exc |-> Reraise(exc), cause |-> exc, key |-> key, val |-> EmptyDict, method |-> "none"]

Success(val, method) ==
  [exc |-> "none", cause |-> "none", key |-> "", val |-> val, method |-> method]

\* from the links step on: add_links, the two cleaning passes, store_headers
FinishCustomEmail(msg, links_type, store_headers, tmpl, links) ==
  LET added == IF links_type # ""
               THEN add_links(links, links_type, tmpl)
               ELSE {[exc |-> "none", tmpl |-> tmpl, method |-> "none"]}
  IN {IF a.exc # "none" THEN Failure(a.exc, "")
      ELSE IF store_headers /\ ~msg.payload.hasHeaders
      THEN Failure("UnboundLocalError", "")
      ELSE Success([a.tmpl EXCEPT
                      !.message = clean_text(remove_unicode(a.tmpl.message)),
                      !.keys = IF store_headers THEN @ \cup {"headres"} ELSE @,
                      !.headres = IF store_headers THEN msg.payload.headers ELSE @],
                   a.method) : a \in added}

extract_custom_email_default_template(msg, links_type, store_headers) ==
  LET basic == IF "payload" \in msg.keys /\ msg.payload.hasHeaders
               THEN email_basic_information(msg.payload.headers, DefaultTemplate)
               ELSE BasicResult("none", "", DefaultTemplate)
      walked == IF "payload" \in msg.keys /\ msg.payload.hasParts
                THEN email_message_from_partial(msg, basic.tmpl)
                ELSE WalkResult("none", "", basic.tmpl, <<>>)
  IN IF "payload" \notin msg.keys
     THEN {Success(DefaultTemplate, "none")}
     ELSE IF basic.exc # "none" THEN {Failure(basic.exc, basic.key)}
     ELSE IF walked.exc # "none" THEN {Failure(walked.exc, walked.key)}
     ELSE FinishCustomEmail(msg, links_type, store_headers, walked.rec, walked.links)

extract_custom_email(msg, links_type, store_headers) ==
  LET basic == IF "payload" \in msg.keys /\ msg.payload.hasHeaders
               THEN email_basic_information(msg.payload.headers, DefaultTemplate)
               ELSE BasicResult("none", "", DefaultTemplate)
      walked == IF "payload" \in msg.keys /\ msg.payload.hasParts
                THEN email_message_from_partial(msg, basic.tmpl)
                ELSE WalkResult("none", "", basic.tmpl, <<>>)
  IN IF "payload" \notin msg.keys
     THEN {Success(EmptyDict, "none")}
     ELSE IF basic.exc # "none" THEN {Failure(basic.exc, basic.key)}
     ELSE IF walked.exc # "none" THEN {Failure(walked.exc, walked.key)}
     ELSE FinishCustomEmail(msg, links_type, store_headers, walked.rec, walked.links)

(***************************************************************************)
(* Messages.  The text messages have text parts only, made of at most      *)
(* MaxTextSyms symbols: "," ends a part, every other symbol is a fragment  *)
(* of its text, and a part whose text holds a tag is text/html.  The shape *)
(* messages have at most MaxParts parts, each of one of the part shapes,   *)
(* and one of the header lists.                                            *)
(***************************************************************************)
TagB == <<"<", "b", ">">>

TextFragments ==
  [H |-> HttpScheme, W |-> WwwPrefix, a |-> <<"a">>, sp |-> <<" ">>, T |-> TagB]

TextSymbols == {"H", "W", "a", "sp", "T", ","}

TextPart(mime, text) ==
  [hasMime |-> TRUE, mimeType |-> mime, hasBody |-> TRUE, hasData |-> TRUE,
   data |-> [enc |-> "ok", text |-> text]]

PartOfSegment(seg) ==
  TextPart(IF \E k \in DOMAIN seg : seg[k] = "T" THEN "text/html" ELSE "text/plain",
           TextOf(TextFragments, seg))

PartsOf(q) == LET segs == SplitAt(q, ",") IN [k \in DOMAIN segs |-> PartOfSegment(segs[k])]

Payload(hasHeaders, headers, hasParts, parts) ==
  [hasHeaders |-> hasHeaders, headers |-> headers, hasParts |-> hasParts, parts |-> parts]

NoPayload == Payload(FALSE, <<>>, FALSE, <<>>)

TextMessages ==
  {[keys |-> {"id", "payload"}, payload |-> Payload(FALSE, <<>>, TRUE, PartsOf(q))] :
     q \in SeqsUpTo(TextSymbols, MaxTextSyms)}

SeeUrlText == <<"a", " ">> \o HttpScheme \o <<"a", ".", "b", "/", "c", " ", "!">>

PartShapes ==
  { TextPart("text/plain", SeeUrlText),
    TextPart("text/html", TagB \o WwwPrefix \o <<"x", "\n", "\n", "y">>),
    \* an attachment
    [TextPart("image/png", <<>>) EXCEPT !.hasData = FALSE],
    \* no mimeType
    [TextPart("text/plain", <<"a">>) EXCEPT !.hasMime = FALSE],
    \* no body
    [TextPart("text/plain", <<>>) EXCEPT !.hasBody = FALSE, !.hasData = FALSE],
    \* a body without data
    [TextPart("text/html", <<>>) EXCEPT !.hasData = FALSE],
    \* data that does not decode
    [TextPart("text/plain", <<>>) EXCEPT !.data = [enc |-> "bad_base64", text |-> <<>>]],
    [TextPart("text/html", <<>>) EXCEPT !.data = [enc |-> "bad_utf8", text |-> <<>>]] }

\* a part that lists further parts under its own `parts`
Container(mime, parts) ==
  [hasMime |-> TRUE, mimeType |-> mime, hasBody |-> TRUE, hasData |-> FALSE,
   data |-> [enc |-> "ok", text |-> <<>>], parts |-> parts]

\* messages whose payload.parts hold text parts and multipart containers
NestedMessages ==
  LET NestedTexts ==
        { TextPart("text/plain", SeeUrlText),
          TextPart("text/html", TagB \o WwwPrefix \o <<"x", "\n", "\n", "y">>) }
      containers == {Container("multipart/alternative", ps) :
                       ps \in SeqsUpTo(NestedTexts, MaxParts) \ {<<>>}}
  IN {[keys |-> {"id", "payload"}, payload |-> Payload(FALSE, <<>>, TRUE, ps)] :
        ps \in SeqsUpTo(NestedTexts \cup containers, MaxParts)}

Entry(name, value) == [hasName |-> TRUE, name |-> name, hasValue |-> TRUE, value |-> value]

GoodHeaders ==
  <<Entry("From", JaneValue), Entry("Subject", HiValue), Entry("To", TwoAddressValue)>>

ShapeHeaders ==
  { <<>>, GoodHeaders,
    <<Entry("Subject", HiValue)>>,
    <<[Entry("To", <<>>) EXCEPT !.hasValue = FALSE]>>,
    <<Entry("From", <<>>)>> }

ShapePayloads ==
  {Payload(hh, IF hh THEN hs ELSE <<>>, hp, IF hp THEN ps ELSE <<>>) :
     hh \in BOOLEAN, hs \in ShapeHeaders, hp \in BOOLEAN, ps \in SeqsUpTo(PartShapes, MaxParts)}

ShapeMessages ==
  {[keys |-> {}, payload |-> NoPayload], [keys |-> {"id"}, payload |-> NoPayload]}
    \cup {[keys |-> {"id", "payload"}, payload |-> p] : p \in ShapePayloads}

(***************************************************************************)
(* The walker applied to a message.                                        *)
(***************************************************************************)
InitWalk ==
  /\ pc = "input"
  /\ arg \in TextMessages \cup ShapeMessages
  /\ ret = WalkResult("pending", "", EmptyDict, <<>>)

CallMessageFromPartial ==
  /\ pc = "input"
  /\ pc' = "email_message_from_partial"
  /\ ret' = email_message_from_partial(arg, DefaultTemplate)
  /\ UNCHANGED arg

NextWalk == CallMessageFromPartial

SpecWalk == InitWalk /\ [][NextWalk]_vars

(***************************************************************************)
(* The assembler applied to a message: the text messages without stored    *)
(* headers, the shape messages with both values of store_headers.          *)
(***************************************************************************)
Init ==
  /\ pc = "input"
  /\ \/ arg \in [msg : TextMessages, links_type : LinksTypeValues, store_headers : {FALSE}]
     \/ arg \in [msg : ShapeMessages, links_type : LinksTypeValues, store_headers : BOOLEAN]
  /\ ret = [Success(EmptyDict, "none") EXCEPT !.exc = "pending"]

CallExtractCustomEmail ==
  /\ pc = "input"
  /\ pc' = "extract_custom_email"
  /\ ret' \in extract_custom_email(arg.msg, arg.links_type, arg.store_headers)
  /\ UNCHANGED arg

Next == CallExtractCustomEmail

Spec == Init /\ [][Next]_vars

(***************************************************************************)
(* Properties of the walker and of the assembler.                          *)
(***************************************************************************)
HasPayload(msg) == "payload" \in msg.keys

Assembled == pc = "extract_custom_email"

IsTextPart(part) ==
  /\ part.hasMime /\ part.mimeType \in TextMimeTypes
  /\ part.hasBody /\ part.hasData /\ part.data.enc = "ok"

AllTextParts(msg) ==
  /\ HasPayload(msg)
  /\ msg.payload.hasParts
  /\ \A k \in DOMAIN msg.payload.parts : IsTextPart(msg.payload.parts[k])

\* the http(s) URLs of the decoded texts of the parts
PartUrls(msg) ==
  UNION {TokenUrls(msg.payload.parts[k].data.text) : k \in DOMAIN msg.payload.parts}

OccursIn(u, s) == \E i \in DOMAIN s : StartsAt(s, i, u)

\* C1 (as claimed): a non-empty message without `payload` gives the default
\* template (from/to/subject unset, empty message, no links), without raising.
C1_NoPayloadGivesDefaultTemplate ==
  (Assembled /\ arg.msg.keys # {} /\ ~HasPayload(arg.msg)) =>
    /\ ret.exc = "none"
    /\ ret.val.keys = TemplateKeys
    /\ ret.val.from = PyNone /\ ret.val.to = PyNone /\ ret.val.subject = PyNone
    /\ ret.val.message = <<>>
    /\ ret.val.links = NoLinks

\* C1 (amended): a non-empty message without `payload` gives, for every link
\* mode and store_headers value, the dict {} (no from/to/subject, message or
\* links key), without raising.
C1_NoPayloadGivesEmptyDict ==
  (Assembled /\ arg.msg.keys # {} /\ ~HasPayload(arg.msg)) =>
    /\ ret.exc = "none"
    /\ ret.val.keys = {}

C1_Witness ==
  /\ Assembled
  /\ arg.msg.keys = {"id"}
  /\ arg.links_type = LinksType.DETAILED
  /\ arg.store_headers
  /\ ret.exc = "none"
  /\ ret.val.keys = {}

WalkedEmpty == ret = WalkResult("none", "", EmptyDict, <<>>)

C2_WitnessNoPayload ==
  pc = "email_message_from_partial" /\ arg.keys = {"id"} /\ WalkedEmpty

\* C3: for a message of text parts assembled with DETAILED, links.href holds
\* each http(s) URL of the decoded part texts exactly once (also one that
\* occurs in several parts), and none of them occurs in the final message.
C3_DetailedLinksOnceAndRemoved ==
  (Assembled /\ arg.links_type = LinksType.DETAILED /\ AllTextParts(arg.msg)) =>
    /\ ~arg.msg.payload.hasHeaders /\ ~arg.store_headers => ret.exc = "none"
    /\ ret.exc = "none" =>
         /\ NoDuplicates(ret.val.links.href)
         /\ Range(ret.val.links.href) = PartUrls(arg.msg)
         /\ ret.val.links.number = Cardinality(PartUrls(arg.msg))
         /\ \A u \in PartUrls(arg.msg) : ~OccursIn(u, ret.val.message)
         /\ findall("DETAILED_LINK", ret.val.message) = <<>>

\* two text parts hold the same URL between other words; it is listed once
\* and the words stay in the message
C3_Witness ==
  /\ Assembled
  /\ arg.links_type = LinksType.DETAILED
  /\ AllTextParts(arg.msg)
  /\ Len(arg.msg.payload.parts) = 2
  /\ \A k \in 1..2 : Cardinality(TokenUrls(arg.msg.payload.parts[k].data.text)) = 1
  /\ Cardinality(PartUrls(arg.msg)) = 1
  /\ ret.exc = "none"
  /\ Len(ret.val.links.href) = 1
  /\ ret.val.message # <<>>

\* C4: with NONE no extractor is called and links stay {number 0, href []},
\* whatever URLs the parts hold; with BASIC links_basic is the one called,
\* with DETAILED links_detailed.
C4_LinkModeSelectsExtractor ==
  (Assembled /\ HasPayload(arg.msg) /\ ret.exc = "none") =>
    /\ arg.links_type = LinksType.NONE => (ret.method = "none" /\ ret.val.links = NoLinks)
    /\ arg.links_type = LinksType.BASIC => ret.method = "links_basic"
    /\ arg.links_type = LinksType.DETAILED => ret.method = "links_detailed"
    /\ ret.val.links.number = Len(ret.val.links.href)

C4_Witness ==
  /\ Assembled
  /\ arg.links_type = LinksType.NONE
  /\ AllTextParts(arg.msg)
  /\ PartUrls(arg.msg) # {}
  /\ ret.exc = "none"
  /\ ret.method = "none"
  /\ ret.val.links = NoLinks

C4_WitnessBasic ==
  /\ Assembled
  /\ arg.links_type = LinksType.BASIC
  /\ ret.exc = "none"
  /\ ret.method = "links_basic"
  /\ ret.val.links.number = 2

(***************************************************************************)
(* gmail.py: the two normalization passes the assembler applies to the     *)
(* message text, run on a text and then on their own result.               *)
(***************************************************************************)
\* bound: length of the text given to the normalization passes
MaxNormLen == 5

\* message_template["message"] = clean_text(remove_unicode(message))
NormalizeMessage(message) == clean_text(remove_unicode(message))

NormChars == {"a", "!", " ", "\n", "\r", "ZWSP", "NBSP", "ENQUAD"}

InitNormalize ==
  /\ pc = "input"
  /\ arg \in SeqsUpTo(NormChars, MaxNormLen)
  /\ ret = [once |-> <<>>, twice |-> <<>>]

NormalizeOnce ==
  /\ pc = "input"
  /\ pc' = "normalized"
  /\ ret' = [ret EXCEPT !.once = NormalizeMessage(arg)]
  /\ UNCHANGED arg

NormalizeTwice ==
  /\ pc = "normalized"
  /\ pc' = "renormalized"
  /\ ret' = [ret EXCEPT !.twice = NormalizeMessage(ret.once)]
  /\ UNCHANGED arg

NextNormalize == NormalizeOnce \/ NormalizeTwice

SpecNormalize == InitNormalize /\ [][NextNormalize]_vars

\* C14: normalization is idempotent: normalizing the normalized text of any
\* input text gives the normalized text again.
C14_NormalizeIdempotent ==
  pc = "renormalized" => ret.twice = ret.once

\* the same for the texts that hold no character outside ASCII
C14_AsciiIdempotent ==
  (pc = "renormalized" /\ \A k \in DOMAIN arg : arg[k] \notin {"ZWSP", "NBSP", "ENQUAD"})
    => ret.twice = ret.once

C14_AsciiWitness ==
  /\ pc = "renormalized"
  /\ arg = <<"a", "\r", "\n", "!", "a">>
  /\ ret.once = <<"a", "\n", "a">>
  /\ ret.twice = ret.once

(***************************************************************************)
(* utils.py: MIME_TYPE_MAP and is_attachment_allowed.                      *)
(***************************************************************************)
ImagePng == <<"i", "m", "a", "g", "e", "/", "p", "n", "g">>
ImageJpeg == <<"i", "m", "a", "g", "e", "/", "j", "p", "e", "g">>
ImageJpg == <<"i", "m", "a", "g", "e", "/", "j", "p", "g">>
ImageWebp == <<"i", "m", "a", "g", "e", "/", "w", "e", "b", "p">>
ApplicationPdf ==
  <<"a", "p", "p", "l", "i", "c", "a", "t", "i", "o", "n", "/", "p", "d",
    "f">>
SpreadsheetXml ==
  <<"a", "p", "p", "l", "i", "c", "a", "t", "i", "o", "n", "/", "v", "n",
    "d", ".", "o", "p", "e", "n", "x", "m", "l", "f", "o", "r", "m", "a",
    "t", "s", "-", "o", "f", "f", "i", "c", "e", "d", "o", "c", "u", "m",
    "e", "n", "t", ".", "s", "p", "r", "e", "a", "d", "s", "h", "e", "e",
    "t", "m", "l", ".", "s", "h", "e", "e", "t">>
ApplicationXml ==
  <<"a", "p", "p", "l", "i", "c", "a", "t", "i", "o", "n", "/", "x", "m",
    "l">>
TextXml == <<"t", "e", "x", "t", "/", "x", "m", "l">>

\* the dict MIME_TYPE_MAP: content type and the AllowedAttachment value
MIME_TYPE_MAP ==
  {[mime |-> ImagePng, ext |-> <<"p", "n", "g">>],
   [mime |-> ImageJpeg, ext |-> <<"j", "p", "e", "g">>],
   [mime |-> ImageJpg, ext |-> <<"j", "p", "g">>],
   [mime |-> ImageWebp, ext |-> <<"w", "e", "b", "m">>],
   [mime |-> ApplicationPdf, ext |-> <<"p", "d", "f">>],
   [mime |-> SpreadsheetXml, ext |-> <<"x", "l", "s", "x">>],
   [mime |-> ApplicationXml, ext |-> <<"x", "m", "l">>],
   [mime |-> TextXml, ext |-> <<"x", "m", "l">>]}

\* MIME_TYPE_MAP.get(mime_type)
MimeTypeMapGet(mime_type) ==
  IF \E e \in MIME_TYPE_MAP : e.mime = mime_type
  THEN PyStr((CHOOSE e \in MIME_TYPE_MAP : e.mime = mime_type).ext)
  ELSE PyNone

\* the truth value of None or a str
Truthy(v) == v.t = "str" /\ v.v # <<>>

\* s.split(';')[0]
BeforeSemicolon(s) ==
  LET idx == {k \in DOMAIN s : s[k] = ";"}
  IN IF idx = {} THEN s ELSE SubSeq(s, 1, SetMin(idx) - 1)

is_attachment_allowed_no_strip(mime_type) ==
  IF mime_type.t # "str" THEN Raised("AttributeError")
  ELSE Returned(Truthy(MimeTypeMapGet(BeforeSemicolon(mime_type.v))))

\* None has no split: the AttributeError is not an IndexError and leaves the
\* function
is_attachment_allowed(mime_type) ==
  IF mime_type.t # "str" THEN Raised("AttributeError")
  ELSE LET bare == strip(BeforeSemicolon(mime_type.v))
       IN IF bare = <<>> THEN Returned(FALSE)
          ELSE IF Truthy(MimeTypeMapGet(bare)) THEN Returned(TRUE)
          ELSE Returned(FALSE)

\* gmail.py, __get_attachments: part.get("mimeType", "")
DeclaredMimeType(part) == IF part.hasMime THEN part.mimeType ELSE PyStr(<<>>)

(***************************************************************************)
(* Inputs of is_attachment_allowed: the declared content type of a part,   *)
(* a text of at most MaxMimeSyms fragments, None, or no mimeType key.      *)
(***************************************************************************)
\* bound: number of fragments of a declared content type
MaxMimeSyms == 3

ApplicationZip == <<"a", "p", "p", "l", "i", "c", "a", "t", "i", "o", "n", "/", "z", "i", "p">>
UpperImagePng == <<"I", "M", "A", "G", "E", "/", "P", "N", "G">>
CharsetParameter ==
  <<";", " ", "c", "h", "a", "r", "s", "e", "t", "=", "b", "i", "n", "a", "r", "y">>

MimeFragments ==
  [png |-> ImagePng, jpeg |-> ImageJpeg, jpg |-> ImageJpg, webp |-> ImageWebp,
   pdf |-> ApplicationPdf, xlsx |-> SpreadsheetXml, axml |-> ApplicationXml,
   txml |-> TextXml, zip |-> ApplicationZip, PNG |-> UpperImagePng,
   img |-> <<"i", "m", "a", "g", "e", "/">>, sub |-> <<"p", "n", "g">>,
   semi |-> <<";">>, sp |-> <<" ">>, tab |-> <<"\t">>, charset |-> CharsetParameter]

MimeTexts == {TextOf(MimeFragments, q) : q \in SeqsUpTo(DOMAIN MimeFragments, MaxMimeSyms)}

AttachmentParts ==
  [hasMime : {TRUE}, mimeType : {PyStr(t) : t \in MimeTexts} \cup {PyNone}]
    \cup {[hasMime |-> FALSE, mimeType |-> PyNone]}

InitAllowed ==
  /\ pc = "input"
  /\ arg \in AttachmentParts
  /\ ret = NoRet

CallIsAttachmentAllowed ==
  /\ pc = "input"
  /\ pc' = "is_attachment_allowed"
  /\ ret' = is_attachment_allowed(DeclaredMimeType(arg))
  /\ UNCHANGED arg

NextAllowed == CallIsAttachmentAllowed

SpecAllowed == InitAllowed /\ [][NextAllowed]_vars

(***************************************************************************)
(* Properties of is_attachment_allowed.                                    *)
(***************************************************************************)
AllowList ==
  {ImagePng, ImageJpeg, ImageJpg, ImageWebp, ApplicationPdf, SpreadsheetXml,
   ApplicationXml, TextXml}

\* s is an allow-list entry between two runs of whitespace, followed by
\* nothing or by a parameter suffix that starts with ";"
BareTypeAllowed(s) ==
  LET a == RunLen(s, 1, Whitespace)
  IN \E e \in AllowList :
       /\ StartsAt(s, a + 1, e)
       /\ LET b == RunLen(s, a + Len(e) + 1, Whitespace)
          IN a + Len(e) + b < Len(s) => s[a + Len(e) + b + 1] = ";"

AllowedCalled == pc = "is_attachment_allowed"

\* C12: for a content-type string, is_attachment_allowed returns true exactly
\* when the text before the first ";", trimmed of whitespace, is an
\* allow-list entry: true for "image/png; charset=binary", false for
\* "application/zip" and for "".
C12_AllowedIffBareTypeListed ==
  (AllowedCalled /\ arg.hasMime /\ arg.mimeType.t = "str") =>
    /\ ret.exc = "none"
    /\ ret.val = BareTypeAllowed(arg.mimeType.v)
    /\ arg.mimeType.v = ImagePng \o CharsetParameter => ret.val = TRUE
    /\ arg.mimeType.v \in {ApplicationZip, <<>>} => ret.val = FALSE

C12_Witness ==
  /\ AllowedCalled
  /\ arg.hasMime
  /\ arg.mimeType = PyStr(ImagePng \o CharsetParameter)
  /\ ret = Returned(TRUE)

C12_WitnessPadded ==
  /\ AllowedCalled
  /\ arg.hasMime
  /\ arg.mimeType = PyStr(<<" ">> \o SpreadsheetXml \o <<"\t">>)
  /\ ret = Returned(TRUE)

C12_WitnessRejected ==
  /\ AllowedCalled
  /\ arg.hasMime
  /\ arg.mimeType \in {PyStr(UpperImagePng), PyStr(ImagePng \o ImagePng),
                        PyStr(<<";">> \o ImagePng)}
  /\ ret = Returned(FALSE)

\* C13: is_attachment_allowed never fails: for a part whose content type is
\* any string, the empty string, None or not declared at all, it returns a
\* boolean.
C13_NeverFails ==
  AllowedCalled => ret.exc = "none"

(***************************************************************************)
(* Properties of the failures of the walker and of the assembler.          *)
(***************************************************************************)
TextTyped(part) == part.hasMime /\ part.mimeType \in TextMimeTypes

LacksKey(part) == TextTyped(part) /\ (~part.hasBody \/ ~part.hasData)

Undecodable(part) ==
  TextTyped(part) /\ part.hasBody /\ part.hasData /\ part.data.enc # "ok"

Defective(part) == LacksKey(part) \/ Undecodable(part)

\* the first part the walker cannot process; 0 if there is none
FirstDefective(parts) ==
  IF \E k \in DOMAIN parts : Defective(parts[k])
  THEN SetMin({k \in DOMAIN parts : Defective(parts[k])})
  ELSE 0

\* the message reaches the walker's loop: it has a payload with parts
WalksParts(msg) == HasPayload(msg) /\ msg.payload.hasParts

\* the header step of the assembler does not fail
HeadersPass(msg) == ~msg.payload.hasHeaders \/ WellFormedHeaders(msg.payload.headers)

\* C15: a text/plain or text/html part without `body` or `data` makes the
\* walker raise KeyError, which reaches the assembler's caller as
\* GmailPayloadError naming the missing key, as every KeyError of a sub-step
\* does.
C15_MissingKeyIsPayloadError ==
  Assembled =>
    /\ (WalksParts(arg.msg) /\ HeadersPass(arg.msg)
          /\ FirstDefective(arg.msg.payload.parts) # 0
          /\ LacksKey(arg.msg.payload.parts[FirstDefective(arg.msg.payload.parts)]))
        => /\ ret.cause = "KeyError"
           /\ ret.exc = "GmailPayloadError"
           /\ ret.key = IF arg.msg.payload.parts[FirstDefective(arg.msg.payload.parts)].hasBody
                        THEN "data" ELSE "body"
    /\ ret.cause = "KeyError" <=> ret.exc = "GmailPayloadError"
    /\ ret.cause = "KeyError" => ret.key \in {"name", "value", "body", "data"}

C15_Witness ==
  /\ Assembled
  /\ WalksParts(arg.msg)
  /\ arg.msg.payload.hasHeaders
  /\ arg.msg.payload.headers = GoodHeaders
  /\ FirstDefective(arg.msg.payload.parts) = 2
  /\ arg.msg.payload.parts[2].hasBody
  /\ ~arg.msg.payload.parts[2].hasData
  /\ ret.exc = "GmailPayloadError"
  /\ ret.key = "data"

C15_WitnessBody ==
  /\ Assembled
  /\ WalksParts(arg.msg)
  /\ FirstDefective(arg.msg.payload.parts) = 1
  /\ ~arg.msg.payload.parts[1].hasBody
  /\ ret.exc = "GmailPayloadError"
  /\ ret.key = "body"

C15_WitnessHeaderKey ==
  /\ Assembled
  /\ ret.exc = "GmailPayloadError"
  /\ ret.key = "value"

\* C16: every exception of a sub-step other than KeyError reaches the
\* assembler's caller as GmailServiceError, never as another type.
C16_OtherErrorsAreServiceError ==
  (Assembled /\ ret.cause \notin {"none", "KeyError"}) => ret.exc = "GmailServiceError"

\* the error types that do reach the caller
C16_ErrorsReachingCaller ==
  Assembled => ret.exc \in {"none", "GmailPayloadError", "GmailSetupError"}

\* the walker's loop reaches an undecodable text part before any other
\* part it cannot process
DecodeFails(msg) ==
  /\ msg.keys # {}
  /\ WalksParts(msg)
  /\ FirstDefective(msg.payload.parts) # 0
  /\ Undecodable(msg.payload.parts[FirstDefective(msg.payload.parts)])

\* C17 (as claimed): when the body data of a text part cannot be decoded
\* the walker fails with an EncodingError (GmailEncodingError) that
\* identifies the failing part.
C17_DecodeFailureIsEncodingError ==
  (pc = "email_message_from_partial" /\ DecodeFails(arg)) =>
    ret.exc = "GmailEncodingError"

\* C17 (amended): when decoding the body data of a text part raises, the
\* walker does not catch the error: the decoder's own exception leaves it,
\* binascii.Error for wrongly padded base64 and UnicodeDecodeError for
\* bytes that are not UTF-8, and names no key.
C17_DecodeFailurePropagates ==
  (pc = "email_message_from_partial" /\ DecodeFails(arg)) =>
    /\ ret.exc =
         (IF arg.payload.parts[FirstDefective(arg.payload.parts)].data.enc = "bad_base64"
          THEN "binascii.Error" ELSE "UnicodeDecodeError")
    /\ ret.key = ""

C17_Witness ==
  /\ pc = "email_message_from_partial"
  /\ DecodeFails(arg)
  /\ FirstDefective(arg.payload.parts) = 2
  /\ IsTextPart(arg.payload.parts[1])
  /\ ret.exc = "binascii.Error"

C17_WitnessUtf8 ==
  /\ pc = "email_message_from_partial"
  /\ DecodeFails(arg)
  /\ ret.exc = "UnicodeDecodeError"

\* the record is the complete template: every key, and consistent links
CompleteRecord(val) ==
  /\ TemplateKeys \subseteq val.keys
  /\ val.links.number = Len(val.links.href)

\* no step after the header step fails: the parts, if any, can all be
\* processed
PartsPass(msg) == msg.payload.hasParts => FirstDefective(msg.payload.parts) = 0

\* C18: a payload without `headers` is not fatal: for both values of
\* store_headers the assembler returns a complete record whose from, to and
\* subject are unset, instead of raising.
C18_NoHeadersIsNonFatal ==
  (Assembled /\ HasPayload(arg.msg) /\ ~arg.msg.payload.hasHeaders /\ PartsPass(arg.msg)) =>
    /\ ret.exc = "none"
    /\ CompleteRecord(ret.val)
    /\ ret.val.from = PyNone /\ ret.val.to = PyNone /\ ret.val.subject = PyNone

\* the same for the calls that do not store the headers
C18_NoHeadersNotStored ==
  (Assembled /\ HasPayload(arg.msg) /\ ~arg.msg.payload.hasHeaders /\ PartsPass(arg.msg)
    /\ ~arg.store_headers) =>
    /\ ret.exc = "none"
    /\ CompleteRecord(ret.val)
    /\ ret.val.from = PyNone /\ ret.val.to = PyNone /\ ret.val.subject = PyNone

\* no header entry makes the header step fail for certain: each has a name,
\* and a From or To entry has a value that is not the empty string
HeadersResolvable(msg) ==
  msg.payload.hasHeaders =>
    \A k \in DOMAIN msg.payload.headers :
      LET e == msg.payload.headers[k]
      IN e.hasName /\ (e.name \in {"From", "To"} => (e.hasValue /\ e.value # <<>>))

\* what the caller of a call that raised sees of the record: nothing
NothingReturned == ret.val = EmptyDict /\ ret.method = "none"

\* C19 (as claimed): every call of the assembler returns a complete record
\* or raises; a call that raises shows no record, and no call changes the
\* raw message.
C19_CompleteRecordOrRaises ==
  /\ [](Assembled =>
          /\ ret.exc = "none" => CompleteRecord(ret.val)
          /\ ret.exc # "none" => NothingReturned)
  /\ [][arg' = arg]_vars

\* C19 (amended): a call on a message with a payload returns a complete
\* record, and only when no step failed, or raises; a call on a message
\* without payload returns the dict {}; a call that raises shows no record,
\* and no call changes the raw message.
C19_AllOrNothing ==
  /\ [](Assembled =>
          /\ (ret.exc = "none" /\ HasPayload(arg.msg)) =>
               /\ CompleteRecord(ret.val)
               /\ arg.store_headers => "headres" \in ret.val.keys
               /\ HeadersResolvable(arg.msg)
               /\ PartsPass(arg.msg)
          /\ (ret.exc = "none" /\ ~HasPayload(arg.msg)) => ret.val = EmptyDict
          /\ ret.exc # "none" => (NothingReturned /\ HasPayload(arg.msg)))
  /\ [][arg' = arg]_vars

\* the header step has set `from` in the template when the walker fails
C19_Witness ==
  /\ Assembled
  /\ arg.msg.payload.hasHeaders
  /\ arg.msg.payload.headers = GoodHeaders
  /\ WalksParts(arg.msg)
  /\ FirstDefective(arg.msg.payload.parts) = 2
  /\ IsTextPart(arg.msg.payload.parts[1])
  /\ ret.exc # "none"
  /\ NothingReturned

C19_WitnessReturned ==
  /\ Assembled
  /\ arg.store_headers
  /\ arg.msg.payload.headers = GoodHeaders
  /\ Len(arg.msg.payload.parts) = MaxParts
  /\ ret.exc = "none"
  /\ ret.val.from = PyList(<<JaneAddress>>)
  /\ ret.val.message # <<>>

(***************************************************************************)
(* gmail.py: GmailService._delete_label.                                   *)
(*                                                                         *)
(* The service is [labels, protected, remote, calls]: the names in         *)
(* self.__labels, self.__protected_labels (the configured str, or None),   *)
(* the labels the mailbox holds, and the number of calls made.  The result *)
(* is [exc, val, called, label_name]: called tells whether the remote      *)
(* delete was requested.                                                   *)
(***************************************************************************)
\* bound: number of _delete_label calls on one service
MaxDeleteCalls == 2

\* x in s, for two str
StrIn(x, s) == \E i \in 1..(Len(s) + 1) : StartsAt(s, i, x)

DeleteResult(exc, val, called, label_name) ==
  [exc |-> exc, val |-> val, called |-> called, label_name |-> label_name]

\* email_sections.py, delete_label: the request fails with HttpError for a
\* label the mailbox does not hold
delete_label(label_name, remote) == IF label_name \in remote THEN "none" ELSE "HttpError"

\* the gmail_api_exceptions decorator
gmail_api_exceptions(exc) ==
  CASE exc = "none" -> "none"
    [] exc = "HttpError" -> "GmailHttpError"
    [] exc = "KeyError" -> "GmailPayloadError"
    [] exc = "TimeoutError" -> "GmailApiCallTimeoutError"
    [] exc = "GmailSetupError" -> "GmailSetupError"
    [] OTHER -> "GmailServiceError"

\* self.__protected_labels is the configured str itself (the list that
\* split(",") builds in __setup_verification is dropped), so `not in` is a
\* substring test, and a TypeError when nothing is configured
_delete_label(service, label_name) ==
  IF label_name \notin service.labels THEN DeleteResult("none", FALSE, FALSE, label_name)
  ELSE IF service.protected.t # "str"
  THEN DeleteResult(gmail_api_exceptions("TypeError"), FALSE, FALSE, label_name)
  ELSE IF StrIn(label_name, service.protected.v)
  THEN DeleteResult("none", FALSE, FALSE, label_name)
  ELSE IF delete_label(label_name, service.remote) # "none"
  THEN DeleteResult(gmail_api_exceptions(delete_label(label_name, service.remote)),
                    FALSE, TRUE, label_name)
  ELSE DeleteResult("none", TRUE, TRUE, label_name)

Inbox == <<"I", "N", "B", "O", "X">>
Sent == <<"S", "E", "N", "T">>
Box == <<"B", "O", "X">>
Work == <<"W", "o", "r", "k">>
Inboxes == Inbox \o <<"E", "S">>

LabelNames == {Inbox, Sent, Box, Work, Inboxes}

\* the values of the protected_labels setting
ProtectedSettings ==
  {PyNone, PyStr(<<>>), PyStr(Inbox), PyStr(Inbox \o <<",">> \o Sent)}

InitLabels ==
  /\ pc = "input"
  /\ \E labels \in SUBSET LabelNames : \E protected \in ProtectedSettings :
       arg = [labels |-> labels, protected |-> protected, remote |-> labels, calls |-> 0]
  /\ ret = DeleteResult("pending", FALSE, FALSE, <<>>)

CallDeleteLabel ==
  /\ arg.calls < MaxDeleteCalls
  /\ \E label_name \in LabelNames :
       /\ ret' = _delete_label(arg, label_name)
       /\ arg' = [arg EXCEPT !.calls = @ + 1,
                              !.remote = IF ret'.exc = "none" /\ ret'.called
                                         THEN @ \ {label_name} ELSE @]
  /\ pc' = "_delete_label"

NextLabels == CallDeleteLabel

SpecLabels == InitLabels /\ [][NextLabels]_vars

(***************************************************************************)
(* Properties of _delete_label.                                            *)
(***************************************************************************)
\* the labels of the comma-separated setting; none when nothing is configured
ProtectedNames(protected) ==
  IF protected.t = "str" THEN Range(SplitAt(protected.v, ",")) ELSE {}

\* C20: _delete_label requests the remote delete and returns True exactly
\* when the name is an existing label that is not one of the comma-separated
\* protected labels (a substring of a protected name is not protected, and
\* without a setting no label is); otherwise it returns False and requests
\* nothing.  Calls whose remote request is refused are left out.
C20_DeletesExactlyUnprotectedExisting ==
  (pc = "_delete_label" /\ ret.exc # "GmailHttpError") =>
    LET delete == /\ ret.label_name \in arg.labels
                  /\ ret.label_name \notin ProtectedNames(arg.protected)
    IN /\ ret.exc = "none"
       /\ ret.called = delete
       /\ ret.val = delete

\* what the code does: a name found anywhere inside the setting is refused
C20_RefusesSubstrings ==
  (pc = "_delete_label" /\ ret.exc = "none") =>
    /\ ret.val = ret.called
    /\ ret.val =>
         /\ ret.label_name \in arg.labels
         /\ ~StrIn(ret.label_name, arg.protected.v)
    /\ (ret.label_name \in ProtectedNames(arg.protected) \/ ret.label_name \notin arg.labels)
         => ~ret.called

(***************************************************************************)
(* The walker applied to the shape messages and to the messages with       *)
(* nested parts.                                                           *)
(***************************************************************************)
InitParts ==
  /\ pc = "input"
  /\ arg \in ShapeMessages \cup NestedMessages
  /\ ret = WalkResult("pending", "", EmptyDict, <<>>)

SpecParts == InitParts /\ [][NextWalk]_vars

(***************************************************************************)
(* Properties of the walker's message and links.                           *)
(***************************************************************************)
\* the parts of the list that declare text/plain or text/html, in order
TextPartsOf(parts) == SelectSeq(parts, TextTyped)

\* the visible text of a part, its URLs taken out, cleaned
CleanedVisibleText(part) == clean_text(sub("HTTP_HTTPS_URL", get_text(part.data.text)))

\* the URLs of the decoded text of a part, in the order they occur
UrlsOf(part) == findall("HTTP_HTTPS_URL", part.data.text)

Walked == pc = "email_message_from_partial"

\* every part of the message can be processed
WalkPasses(msg) ==
  msg.keys # {} /\ WalksParts(msg) /\ FirstDefective(msg.payload.parts) = 0

\* C21: the walker's message is the concatenation, in the order of
\* payload.parts, of the cleaned visible text of exactly the parts declared
\* text/plain or text/html; parts without a declared type or of another type
\* add nothing and raise nothing; the links are in encounter order, with
\* duplicates kept.
C21_MessageConcatenatesTextParts ==
  (Walked /\ WalkPasses(arg)) =>
    LET texts == TextPartsOf(arg.payload.parts)
    IN /\ ret.exc = "none"
       /\ ret.rec.message = Flatten([k \in DOMAIN texts |-> CleanedVisibleText(texts[k])])
       /\ ret.links = Flatten([k \in DOMAIN texts |-> UrlsOf(texts[k])])

\* a text part, then a part of another type
C21_Witness ==
  /\ Walked
  /\ WalkPasses(arg)
  /\ Len(arg.payload.parts) = 2
  /\ TextTyped(arg.payload.parts[1])
  /\ arg.payload.parts[2].hasMime /\ ~TextTyped(arg.payload.parts[2])
  /\ ret.exc = "none"
  /\ ret.rec.message # <<>>
  /\ Len(ret.links) = 1

\* two text parts with the same URL: it is collected twice
C21_WitnessDuplicate ==
  /\ Walked
  /\ WalkPasses(arg)
  /\ Len(TextPartsOf(arg.payload.parts)) = 2
  /\ Len(ret.links) = 2
  /\ ret.links[1] = ret.links[2]
  /\ ret.rec.message # <<>>

\* two text parts whose texts differ: the first part's text comes first
C21_WitnessOrder ==
  /\ Walked
  /\ WalkPasses(arg)
  /\ Len(arg.payload.parts) = 2
  /\ \A k \in 1..2 : TextTyped(arg.payload.parts[k])
  /\ CleanedVisibleText(arg.payload.parts[1]) # CleanedVisibleText(arg.payload.parts[2])
  /\ CleanedVisibleText(arg.payload.parts[1]) # <<>>
  /\ CleanedVisibleText(arg.payload.parts[2]) # <<>>
  /\ ret.rec.message =
       CleanedVisibleText(arg.payload.parts[1]) \o CleanedVisibleText(arg.payload.parts[2])

\* the part lists further parts
IsContainer(part) == "parts" \in DOMAIN part

\* the message has a part that lists a text part under its own `parts`
HasNestedText(msg) ==
  /\ WalkPasses(msg)
  /\ \E k \in DOMAIN msg.payload.parts :
       /\ IsContainer(msg.payload.parts[k])
       /\ \E j \in DOMAIN msg.payload.parts[k].parts :
            TextTyped(msg.payload.parts[k].parts[j])

\* C22 (as claimed): the walker descends into the parts of a part: the
\* cleaned visible text of a text part nested inside another part's `parts`
\* occurs in the message.
C22_NestedTextContributes ==
  (Walked /\ HasNestedText(arg)) =>
    \A k \in DOMAIN arg.payload.parts :
      IsContainer(arg.payload.parts[k]) =>
        \A j \in DOMAIN arg.payload.parts[k].parts :
          TextTyped(arg.payload.parts[k].parts[j]) =>
            OccursIn(CleanedVisibleText(arg.payload.parts[k].parts[j]), ret.rec.message)

\* C22 (amended): the walker does not descend: only the entries of
\* payload.parts themselves are read, and a text part nested inside another
\* part's `parts` adds nothing to the message or to the links.
C22_OnlyTopLevelParts ==
  (Walked /\ HasNestedText(arg)) =>
    LET texts == TextPartsOf(arg.payload.parts)
    IN /\ ret.exc = "none"
       /\ ret.rec.message = Flatten([k \in DOMAIN texts |-> CleanedVisibleText(texts[k])])
       /\ ret.links = Flatten([k \in DOMAIN texts |-> UrlsOf(texts[k])])

\* the only text of the message is nested: the walker returns an empty message
C22_Witness ==
  /\ Walked
  /\ HasNestedText(arg)
  /\ TextPartsOf(arg.payload.parts) = <<>>
  /\ ret.exc = "none"
  /\ ret.rec.message = <<>>
  /\ ret.links = <<>>

(***************************************************************************)
(* How often the cleaning passes run during one assembly.                  *)
(***************************************************************************)
\* text parts whose texts begin or end with whitespace, hold runs of
\* newlines, punctuation or a URL
PaddedMessages ==
  LET PaddedTexts ==
        { TextPart("text/plain", <<"a", " ">>),
          TextPart("text/plain", <<"a">>),
          TextPart("text/plain", <<"\n", "\n", "b", "!", "\r", "\n", "\r", "\n", "c", "\n">>),
          TextPart("text/html", TagB \o <<" ", "x", "ZWSP", "\n">>),
          TextPart("text/plain", SeeUrlText) }
  IN {[keys |-> {"id", "payload"}, payload |-> Payload(FALSE, <<>>, TRUE, ps)] :
        ps \in SeqsUpTo(PaddedTexts, MaxParts)}

InitClean ==
  /\ pc = "input"
  /\ arg \in [msg : PaddedMessages, links_type : LinksTypeValues, store_headers : {FALSE}]
  /\ ret = [Success(EmptyDict, "none") EXCEPT !.exc = "pending"]

SpecClean == InitClean /\ [][Next]_vars

\* the visible text of a part with its URLs taken out, before any cleaning
RawVisibleText(part) == sub("HTTP_HTTPS_URL", get_text(part.data.text))

\* the texts of the parts, one after the other, f applied to each
JoinedText(msg, f(_)) ==
  Flatten([k \in DOMAIN msg.payload.parts |-> f(RawVisibleText(msg.payload.parts[k]))])

Unchanged(text) == text

AssembledTexts == Assembled /\ ret.exc = "none" /\ AllTextParts(arg.msg)

\* C23 (as claimed): the character-stripping pass and the newline-collapse
\* and trim pass each run exactly once during one assembly, on the final
\* assembled text, and not once per part: the message is the normalized
\* concatenation of the parts' visible texts.
C23_NormalizedOnceAtTheEnd ==
  AssembledTexts =>
    ret.val.message = clean_text(remove_unicode(JoinedText(arg.msg, Unchanged)))

\* C23 (amended): the character-stripping pass runs once, on the final
\* text; the newline-collapse and trim pass runs once on each text part's
\* visible text before it is appended, and once more on the final text.
C23_CleanedPerPartAndAtTheEnd ==
  AssembledTexts =>
    ret.val.message = clean_text(remove_unicode(JoinedText(arg.msg, clean_text)))

\* two parts, the first ending in a blank that the per-part pass trims
C23_Witness ==
  /\ AssembledTexts
  /\ Len(arg.msg.payload.parts) = 2
  /\ ret.val.message = <<"a", "a">>
  /\ clean_text(remove_unicode(JoinedText(arg.msg, Unchanged))) = <<"a", " ", "a">>

(***************************************************************************)
(* utils.py: remove_unicode and clean_text called with any Python value:   *)
(* None, an int, bytes, a list or a str.                                   *)
(***************************************************************************)
MaxRawLen == 2

\* bool(v)
PyTruthy(v) ==
  CASE v.t = "NoneType" -> FALSE
    [] v.t = "int" -> v.v # <<"0">>
    [] OTHER -> v.v # <<>>

\* the exception of re.sub(pattern, '', data) for a str pattern: re.sub
\* accepts a str only
ReSubError(data) == IF data.t = "str" THEN "none" ELSE "TypeError"

\* remove_unicode(data, silent_error): the handler is for re.error only
RemoveUnicode(data, silent_error) ==
  LET err == ReSubError(data)
  IN IF err = "re.error"
     THEN IF silent_error THEN Returned(data) ELSE Raised("UtilsTextFormattingError")
     ELSE IF err # "none" THEN Raised(err)
     ELSE Returned(PyStr(remove_unicode(data.v)))

\* clean_text(text): a falsy value is returned as it is, another value that
\* is not a str raises TypeError before the try block
CleanText(text) ==
  IF ~PyTruthy(text) THEN Returned(text)
  ELSE IF text.t # "str" THEN Raised("TypeError")
  ELSE Returned(PyStr(clean_text(text.v)))

\* None, the ints 0 and 5 (an int is given by its decimal digits), the bytes
\* b"" and b"a", the lists [] and ["a"]
NonTextValues ==
  {PyNone, [t |-> "int", v |-> <<"0">>], [t |-> "int", v |-> <<"5">>],
   [t |-> "bytes", v |-> <<>>], [t |-> "bytes", v |-> <<"a">>],
   PyList(<<>>), PyList(<<"a">>)}

InitRaw ==
  /\ pc = "input"
  /\ arg \in [data : NonTextValues \cup {PyStr(s) : s \in SeqsUpTo(NormChars, MaxRawLen)},
               silent_error : BOOLEAN]
  /\ ret = Raised("pending")

CallRemoveUnicode ==
  /\ pc = "input"
  /\ pc' = "remove_unicode"
  /\ ret' = RemoveUnicode(arg.data, arg.silent_error)
  /\ UNCHANGED arg

CallCleanText ==
  /\ pc = "input"
  /\ pc' = "clean_text"
  /\ ret' = CleanText(arg.data)
  /\ UNCHANGED arg

SpecRaw == InitRaw /\ [][CallRemoveUnicode \/ CallCleanText]_vars

\* C24: for an input that is not text, the normalizer fails with
\* UtilsTextFormattingError by default, and with silent_error = True it
\* returns the input unchanged instead of failing.
C24_NonTextFailsOrIsReturned ==
  /\ (pc = "remove_unicode" /\ arg.data.t # "str") =>
       IF arg.silent_error THEN ret = Returned(arg.data)
       ELSE ret.exc = "UtilsTextFormattingError"
  /\ (pc = "clean_text" /\ arg.data.t # "str" /\ ~arg.silent_error) =>
       ret.exc = "UtilsTextFormattingError"

\* what the code does instead: the character-stripping pass raises TypeError
\* for every input that is not text, whatever silent_error is
C24_NonTextRaisesTypeError ==
  (pc = "remove_unicode" /\ arg.data.t # "str") => ret.exc = "TypeError"

(***************************************************************************)
(* email_tracker.py: TrackedEmail.  The object is [status, history, clock, *)
(* calls]: __status, __status_history (a list of {status: timestamp}       *)
(* entries), the reading datetime.now() gives next, and the number of      *)
(* calls made so far; the result is [exc, status]: the exception raised    *)
(* and the status given.                                                   *)
(***************************************************************************)
MaxTrackerCalls == 3

\* the class attribute: the literals "scheduled" "forwarded" have no comma
\* between them and are one str
STATUS ==
  <<"new", "read", "sent", "draft", "moved", "replied", "deleted", "scheduledforwarded">>

\* self.__status_history.append({status: str(datetime.now())})
_update_history(self, status) ==
  [self EXCEPT !.history = Append(@, [status |-> status, time |-> self.clock]),
               !.clock = @ + 1]

\* the update that assigns the status before it is validated
_update_status_assigns_first(self, status) ==
  IF status \notin Range(STATUS)
  THEN [exc |-> "ValueError", self |-> [self EXCEPT !.status = status]]
  ELSE [exc |-> "none", self |-> _update_history([self EXCEPT !.status = status], status)]

_update_status(self, status) ==
  IF status \notin Range(STATUS) THEN [exc |-> "ValueError", self |-> self]
  ELSE [exc |-> "none", self |-> _update_history([self EXCEPT !.status = status], status)]

_delete_history(self) == [self EXCEPT !.history = <<>>]

\* __init__: status "new", an empty history, then _update_status("new")
NewTrackedEmail ==
  _update_status([status |-> "new", history |-> <<>>, clock |-> 0, calls |-> 0], "new").self

\* the statuses the documentation of _update_status lists
DocumentedStatuses ==
  {"new", "sent", "read", "draft", "moved", "replied", "deleted", "scheduled", "forwarded"}

InitTracker ==
  /\ pc = "__init__"
  /\ arg = NewTrackedEmail
  /\ ret = [exc |-> "none", status |-> "new"]

CallUpdateStatus ==
  /\ arg.calls < MaxTrackerCalls
  /\ \E status \in DocumentedStatuses \cup Range(STATUS) \cup {"", "archived", "NEW"} :
       LET r == _update_status(arg, status)
       IN /\ arg' = [r.self EXCEPT !.calls = @ + 1]
          /\ ret' = [exc |-> r.exc, status |-> status]
  /\ pc' = "_update_status"

CallDeleteHistory ==
  /\ arg.calls < MaxTrackerCalls
  /\ arg' = [_delete_history(arg) EXCEPT !.calls = @ + 1]
  /\ ret' = [exc |-> "none", status |-> ""]
  /\ pc' = "_delete_history"

SpecTracker == InitTracker /\ [][CallUpdateStatus \/ CallDeleteHistory]_vars

\* C25: _update_status accepts each of the nine documented statuses (new,
\* sent, read, draft, moved, replied, deleted, scheduled, forwarded) and
\* makes it the current status, and raises ValueError for every other one.
C25_AcceptsDocumentedStatuses ==
  pc = "_update_status" =>
    IF ret.status \in DocumentedStatuses
    THEN ret.exc = "none" /\ arg.status = ret.status
    ELSE ret.exc = "ValueError"

\* what the code does: it accepts the members of STATUS
C25_AcceptsMembersOfStatus ==
  pc = "_update_status" =>
    IF ret.status \in Range(STATUS)
    THEN ret.exc = "none" /\ arg.status = ret.status
    ELSE ret.exc = "ValueError"

\* the last entry of a non-empty history names the current status
LastEntryIsCurrent ==
  arg.history # <<>> => arg.history[Len(arg.history)].status = arg.status

\* an accepted update appends one entry, which names the status given; a
\* rejected one leaves the status and the history as they are
UpdateAppendsOrKeeps ==
  pc' = "_update_status" =>
    IF ret'.exc = "none"
    THEN /\ Len(arg'.history) = Len(arg.history) + 1
         /\ SubSeq(arg'.history, 1, Len(arg.history)) = arg.history
         /\ arg'.history[Len(arg'.history)].status = ret'.status
    ELSE /\ ret'.exc = "ValueError"
         /\ arg'.status = arg.status
         /\ arg'.history = arg.history

\* C30: in every state reached by construction and any sequence of
\* _update_status and _delete_history calls, a non-empty history ends with
\* an entry naming the current status; every accepted _update_status appends
\* exactly one entry; a rejected one (ValueError) changes neither the
\* current status nor the history.
C30_HistoryFollowsStatus ==
  [](LastEntryIsCurrent) /\ [][UpdateAppendsOrKeeps]_vars

\* a rejected update after an accepted one and a deletion of the history
C30_Witness ==
  /\ pc = "_update_status"
  /\ ret.exc = "ValueError"
  /\ arg.calls = 3
  /\ arg.history = <<>>
  /\ arg.status = "read"

\* an accepted update after a deletion: the history holds the one new entry
C30_WitnessAccepted ==
  /\ pc = "_update_status"
  /\ ret.exc = "none"
  /\ Len(arg.history) = 1
  /\ arg.history[1].status = "moved"
  /\ arg.status = "moved"
  /\ arg.calls = 2

(***************************************************************************)
(* gmail.py: __get_attachments.  A part is [filename, hasMime, mimeType,   *)
(* hasBody, attachmentId, remote]: filename and attachmentId are a str or  *)
(* None (the key is absent), remote is what the service answers to the     *)
(* download of the attachment: its data, None when the answer has no       *)
(* "data" key, or an HTTP error.  The result is [exc, cause, val,          *)
(* downloads, saved]: the exception raised and the one its handler caught, *)
(* the value returned, the attachment ids requested from the service and   *)
(* the ids written to the download path.                                   *)
(***************************************************************************)
MaxAttachParts == 2
MaxLimit == 2

AttachmentsResult(exc, cause, val, acc) ==
  [exc |-> exc, cause |-> cause, val |-> val, downloads |-> acc.downloads,
   saved |-> acc.saved]

\* save_local_attachment: True when the file is written; a failure gives
\* False with silent_error and UtilsFileError without
save_local_attachment(disk_ok, attachment_data, silent_error) ==
  IF disk_ok /\ attachment_data.t = "str" THEN Returned(TRUE)
  ELSE IF silent_error THEN Returned(FALSE)
  ELSE Raised("UtilsFileError")

\* __download_attachments: attachment["data"], None without the key; the
\* decorator turns the HttpError of the request into GmailHttpError
__download_attachments(part) ==
  IF part.remote.t = "HttpError" THEN Raised(gmail_api_exceptions("HttpError"))
  ELSE Returned(part.remote)

\* the loop over msg["payload"]["parts"], from part k on; acc holds the
\* attachments collected, the downloads requested and the files saved.
\* count is set to 0 for every part, so it is 0 or 1 when the limit is tested.
RECURSIVE GetAttachmentsFrom(_, _, _, _)
GetAttachmentsFrom(parts, k, acc, call) ==
  IF k > Len(parts)
  THEN AttachmentsResult("none", "none",
                         IF call.return_attachments THEN PyList(acc.attachments) ELSE PyNone,
                         acc)
  ELSE
    LET part == parts[k]
        mime_type == DeclaredMimeType(part)
        is_allowed == is_attachment_allowed(mime_type)
        fetched == __download_attachments(part)
        requested == [acc EXCEPT !.downloads = Append(@, part.attachmentId.v)]
        save_status == save_local_attachment(call.disk_ok, fetched.val,
                                             call.skip_on_download_failure)
        stored == IF save_status.exc = "none" /\ save_status.val
                  THEN [requested EXCEPT !.saved = Append(@, part.attachmentId.v)]
                  ELSE requested
        kept == IF call.return_attachments
                THEN [stored EXCEPT !.attachments = Append(@, fetched.val)]
                ELSE stored
        count == IF call.return_attachments THEN 1 ELSE 0
        limit == call.max_attachments_number
    IN IF ~Truthy(part.filename) THEN GetAttachmentsFrom(parts, k + 1, acc, call)
       ELSE IF is_allowed.exc # "none"
       THEN AttachmentsResult("GmailPayloadError", is_allowed.exc, PyNone, acc)
       ELSE IF ~is_allowed.val THEN GetAttachmentsFrom(parts, k + 1, acc, call)
       ELSE IF ~part.hasBody THEN AttachmentsResult("GmailPayloadError", "KeyError", PyNone, acc)
       ELSE IF ~Truthy(part.attachmentId) THEN GetAttachmentsFrom(parts, k + 1, acc, call)
       ELSE IF fetched.exc # "none"
       THEN AttachmentsResult("GmailPayloadError", fetched.exc, PyNone, requested)
       ELSE IF ~Truthy(call.download_path) THEN GetAttachmentsFrom(parts, k + 1, requested, call)
       ELSE IF save_status.exc # "none"
       THEN AttachmentsResult("GmailPayloadError", save_status.exc, PyNone, requested)
       ELSE IF limit.t = "int" /\ limit.n # 0 /\ count >= limit.n
       THEN AttachmentsResult("none", "none",
                              IF call.return_attachments THEN PyList(kept.attachments)
                              ELSE PyNone,
                              kept)
       ELSE GetAttachmentsFrom(parts, k + 1, kept, call)

NoAttachments == [attachments |-> <<>>, downloads |-> <<>>, saved |-> <<>>]

\* without `payload` or `parts` the empty list is returned, whatever
\* return_attachments is
__get_attachments(call) ==
  IF "payload" \notin call.msg.keys \/ ~call.msg.payload.hasParts
  THEN AttachmentsResult("none", "none", PyList(<<>>), NoAttachments)
  ELSE GetAttachmentsFrom(call.msg.payload.parts, 1, NoAttachments, call)

AttachmentPart(filename, mime, id, remote) ==
  [filename |-> filename, hasMime |-> TRUE, mimeType |-> PyStr(mime), hasBody |-> TRUE,
   attachmentId |-> id, remote |-> remote]

AttachmentShapes ==
  LET PngName == <<"a", ".", "p", "n", "g">>
      PdfName == <<"b", ".", "p", "d", "f">>
      ZipName == <<"z", ".", "z", "i", "p">>
  IN
  { AttachmentPart(PyStr(PngName), ImagePng, PyStr(<<"A">>), PyStr(<<"d", "A">>)),
    AttachmentPart(PyStr(PdfName), ApplicationPdf, PyStr(<<"B">>), PyStr(<<"d", "B">>)),
    \* a type that is not allowed
    AttachmentPart(PyStr(ZipName), ApplicationZip, PyStr(<<"Z">>), PyStr(<<"d", "Z">>)),
    \* a text part: no filename, or an empty one
    AttachmentPart(PyNone, <<"t", "e", "x", "t", "/", "x", "m", "l">>, PyNone, PyNone),
    AttachmentPart(PyStr(<<>>), ImagePng, PyStr(<<"E">>), PyStr(<<"d", "E">>)),
    \* a body without attachmentId
    AttachmentPart(PyStr(PngName), ImagePng, PyNone, PyNone),
    \* no body
    [AttachmentPart(PyStr(PngName), ImagePng, PyNone, PyNone) EXCEPT !.hasBody = FALSE],
    \* the service answers without "data", or with an HTTP error
    AttachmentPart(PyStr(PngName), ImagePng, PyStr(<<"N">>), PyNone),
    AttachmentPart(PyStr(PdfName), ApplicationPdf, PyStr(<<"H">>),
                   [t |-> "HttpError", v |-> <<>>]) }

AttachmentMessages ==
  {[keys |-> {"id"}, payload |-> NoPayload],
   [keys |-> {"id", "payload"}, payload |-> NoPayload]}
    \cup {[keys |-> {"id", "payload"}, payload |-> Payload(FALSE, <<>>, TRUE, ps)] :
            ps \in SeqsUpTo(AttachmentShapes, MaxAttachParts)}

\* max_attachments_number is None or an int
InitAttachments ==
  /\ pc = "input"
  /\ arg \in [msg : AttachmentMessages, return_attachments : BOOLEAN,
               download_path : {PyNone, PyStr(<<"/", "t", "m", "p">>)},
               skip_on_download_failure : BOOLEAN,
               max_attachments_number :
                 {[t |-> "NoneType", n |-> 0]} \cup {[t |-> "int", n |-> n] : n \in 0..MaxLimit},
               disk_ok : BOOLEAN]
  /\ ret = AttachmentsResult("pending", "none", PyNone, NoAttachments)

CallGetAttachments ==
  /\ pc = "input"
  /\ pc' = "__get_attachments"
  /\ ret' = __get_attachments(arg)
  /\ UNCHANGED arg

SpecAttachments == InitAttachments /\ [][CallGetAttachments]_vars

(***************************************************************************)
(* Properties of __get_attachments.                                        *)
(***************************************************************************)
GotAttachments == pc = "__get_attachments"

\* the part has a filename, an allowed content type and an attachmentId
IsAttachment(part) ==
  /\ Truthy(part.filename)
  /\ is_attachment_allowed(DeclaredMimeType(part)) = Returned(TRUE)
  /\ part.hasBody
  /\ Truthy(part.attachmentId)

AttachmentsOf(msg) == SelectSeq(msg.payload.parts, IsAttachment)

\* C26: for every positive max_attachments_number, at most that many
\* attachments of the message are downloaded, however many allowed
\* attachment parts it has.
C26_DownloadsAtMostLimit ==
  (GotAttachments /\ arg.max_attachments_number.t = "int"
     /\ arg.max_attachments_number.n > 0) =>
    /\ Len(ret.downloads) <= arg.max_attachments_number.n
    /\ Len(ret.saved) <= arg.max_attachments_number.n

\* what the code does: the limit stops the loop only after an attachment
\* that was saved and returned, and only when the limit is 1
C26_LimitOnlyOneSavedAndReturned ==
  (GotAttachments /\ ret.exc = "none" /\ "payload" \in arg.msg.keys /\ arg.msg.payload.hasParts) =>
    (Len(ret.downloads) < Len(AttachmentsOf(arg.msg)) =>
       /\ arg.max_attachments_number = [t |-> "int", n |-> 1]
       /\ arg.return_attachments
       /\ Truthy(arg.download_path)
       /\ Len(ret.downloads) = 1)

\* C27: with return_attachments the call returns the raw data of every part
\* that has a filename, an allowed content type and an attachmentId, in part
\* order, with or without a download path; without return_attachments it
\* returns None.  Calls that raise or that have a limit are left out.
C27_ReturnsEveryAttachment ==
  (GotAttachments /\ ret.exc = "none" /\ "payload" \in arg.msg.keys /\ arg.msg.payload.hasParts
     /\ arg.max_attachments_number.t = "NoneType") =>
    IF arg.return_attachments
    THEN LET found == AttachmentsOf(arg.msg)
         IN ret.val = PyList([k \in DOMAIN found |-> found[k].remote])
    ELSE ret.val = PyNone

\* what the code does: the data are collected only when a download path is
\* given; without one the list returned is empty
C27_ReturnsOnlyWithDownloadPath ==
  (GotAttachments /\ ret.exc = "none" /\ "payload" \in arg.msg.keys /\ arg.msg.payload.hasParts
     /\ arg.max_attachments_number.t = "NoneType") =>
    IF ~arg.return_attachments THEN ret.val = PyNone
    ELSE IF ~Truthy(arg.download_path) THEN ret.val = PyList(<<>>)
    ELSE LET found == AttachmentsOf(arg.msg)
         IN ret.val = PyList([k \in DOMAIN found |-> found[k].remote])

(***************************************************************************)
(* The links of the walker in the assembled record.                        *)
(***************************************************************************)
\* the links the walker collects from the parts of the message
Collected(msg) == email_message_from_partial(msg, DefaultTemplate).links

\* C28: in DETAILED mode no link is lost between the walker and the
\* assembled record: every URL the walker collects and takes out of the text
\* (http://, https:// or www. followed by non-whitespace) is one of
\* links.href, so links.number is 0 only if the walker collected nothing.
C28_NoCollectedLinkLost ==
  (Assembled /\ arg.links_type = LinksType.DETAILED /\ AllTextParts(arg.msg)
     /\ ret.exc = "none") =>
    /\ \A k \in DOMAIN Collected(arg.msg) :
         Collected(arg.msg)[k] \in Range(ret.val.links.href)
    /\ ret.val.links.number = 0 => Collected(arg.msg) = <<>>

\* what the code does: links.href holds the http(s):// matches inside the
\* collected links; a collected www. link without a scheme is dropped
C28_OnlySchemeLinksKept ==
  (Assembled /\ arg.links_type = LinksType.DETAILED /\ AllTextParts(arg.msg)
     /\ ret.exc = "none") =>
    Range(ret.val.links.href) =
      UNION {Range(findall("DETAILED_LINK", Collected(arg.msg)[k])) :
               k \in DOMAIN Collected(arg.msg)}

(***************************************************************************)
(* gmail.py: _get_emails.  The service is [emails, calls]: self._emails,   *)
(* the deque made once by __setup_verification, as the sequence of the ids *)
(* of its TrackedEmail objects, and the number of calls made so far.  A    *)
(* retrieved message is [id, complete]: a message that is not complete     *)
(* lacks "threadId", and building its TrackedEmail raises KeyError.  The   *)
(* result is [exc, val, retrieved].                                        *)
(***************************************************************************)
MaxGetCalls == 2
MaxRetrieved == 2

\* the for loop over messages, from message k on: each message is appended
\* to self._emails; a KeyError is raised again as GmailEmailError, which the
\* decorator turns into GmailServiceError
RECURSIVE GetEmailsFrom(_, _, _)
GetEmailsFrom(emails, messages, k) ==
  IF k > Len(messages) THEN [exc |-> "none", emails |-> emails]
  ELSE IF ~messages[k].complete
  THEN [exc |-> gmail_api_exceptions("GmailEmailError"), emails |-> emails]
  ELSE GetEmailsFrom(Append(emails, messages[k].id), messages, k + 1)

\* without messages a new empty list is returned; otherwise self._emails
\* itself, which is never emptied
_get_emails(service, messages) ==
  IF messages = <<>> THEN [exc |-> "none", val |-> <<>>, emails |-> service.emails]
  ELSE LET r == GetEmailsFrom(service.emails, messages, 1)
       IN [exc |-> r.exc, val |-> IF r.exc = "none" THEN r.emails ELSE <<>>,
           emails |-> r.emails]

InitEmails ==
  /\ pc = "__setup_verification"
  /\ arg = [emails |-> <<>>, calls |-> 0]
  /\ ret = [exc |-> "none", val |-> <<>>, retrieved |-> <<>>]

CallGetEmails ==
  /\ arg.calls < MaxGetCalls
  /\ \E messages \in SeqsUpTo([id : {"m1", "m2", "m3"}, complete : BOOLEAN], MaxRetrieved) :
       LET r == _get_emails(arg, messages)
       IN /\ arg' = [emails |-> r.emails, calls |-> arg.calls + 1]
          /\ ret' = [exc |-> r.exc, val |-> r.val, retrieved |-> messages]
  /\ pc' = "_get_emails"

SpecEmails == InitEmails /\ [][CallGetEmails]_vars

\* the ids of the messages, in order
IdsOf(messages) == [k \in DOMAIN messages |-> messages[k].id]

\* C29: after any sequence of _get_emails calls on one service, successful
\* or failing, the collection a successful call returns holds exactly one
\* TrackedEmail per message retrieved by that call, in retrieval order, and
\* none of an earlier call.
C29_ReturnsThisCallsEmails ==
  (pc = "_get_emails" /\ ret.exc = "none") => ret.val = IdsOf(ret.retrieved)

\* what the code does: a call that retrieved messages returns every email
\* appended since the service was set up, its own last
C29_ReturnsEveryEmailSoFar ==
  (pc = "_get_emails" /\ ret.exc = "none" /\ ret.retrieved # <<>>) =>
    /\ ret.val = arg.emails
    /\ Len(ret.val) >= Len(ret.retrieved)
    /\ SubSeq(ret.val, Len(ret.val) - Len(ret.retrieved) + 1, Len(ret.val)) = IdsOf(ret.retrieved)

====
